---- MODULE Spec2Model ----
(***************************************************************************)
(* Burrito bot (src/src/app/app.ts): the message handler, the members-added *)
(* handler, the award ledger and the per-user counters.                     *)
(*                                                                         *)
(* Text is modelled character by character: a string is a sequence of      *)
(* one-character strings, so that lower-casing, trimming and the regular   *)
(* expressions of the handler are computed as the code computes them.      *)
(* The burrito emoji is the single element BurritoEmoji.                   *)
(***************************************************************************)
EXTENDS Integers, Sequences, FiniteSets, Bags, TLC

VARIABLES
    conversationDataStore,  \* the Map conversationDataStore, by conversation id
    now,                    \* the current date, what new Date() returns
    last,                   \* history: the event handled last and its outcome
    running                 \* the message handlers waiting at an await

vars == <<conversationDataStore, now, last, running>>

----------------------------------------------------------------------------
(* Characters and strings                                                  *)

LowerLetters == <<"a", "b", "c", "d", "e", "f", "g", "h", "i", "j", "k", "l", "m",
                  "n", "o", "p", "q", "r", "s", "t", "u", "v", "w", "x", "y", "z">>

UpperLetters == <<"A", "B", "C", "D", "E", "F", "G", "H", "I", "J", "K", "L", "M",
                  "N", "O", "P", "Q", "R", "S", "T", "U", "V", "W", "X", "Y", "Z">>

DigitChars == {"0", "1", "2", "3", "4", "5", "6", "7", "8", "9"}

BurritoEmoji == ":burrito:"

\* \s of the regular expressions
IsWhitespace(c) == c \in {" ", "\t", "\n", "\r"}

\* what . does not match
IsLineTerminator(c) == c \in {"\n", "\r"}

IsLetter(c) == \E i \in 1..Len(LowerLetters) : c = LowerLetters[i] \/ c = UpperLetters[i]

\* the class [a-zA-Z0-9\s_-]
IsNameChar(c) == IsLetter(c) \/ c \in DigitChars \/ IsWhitespace(c) \/ c \in {"_", "-"}

toLowerCaseChar(c) ==
    IF \E i \in 1..Len(UpperLetters) : UpperLetters[i] = c
    THEN LowerLetters[CHOOSE i \in 1..Len(UpperLetters) : UpperLetters[i] = c]
    ELSE c

\* String.prototype.toLowerCase
toLowerCase(s) == [i \in 1..Len(s) |-> toLowerCaseChar(s[i])]

\* s.substring(i-1, j-1): the characters i .. j-1 (1-based), empty when j <= i
Slice(s, i, j) == [k \in 1..(j - i) |-> s[i + k - 1]]

\* the literal lit occurs in s at position i
LitAt(s, i, lit) ==
    /\ i >= 1
    /\ i + Len(lit) - 1 <= Len(s)
    /\ \A k \in 1..Len(lit) : s[i + k - 1] = lit[k]

\* String.prototype.includes
includes(s, lit) == \E i \in 1..(Len(s) + 1) : LitAt(s, i, lit)

\* String.prototype.startsWith
startsWith(s, lit) == LitAt(s, 1, lit)

\* every character of s at positions i .. j-1 is whitespace
AllWhitespace(s, i, j) == \A k \in i..(j - 1) : IsWhitespace(s[k])

\* every character of s at positions i .. j-1 is of the name class
AllNameChars(s, i, j) == \A k \in i..(j - 1) : IsNameChar(s[k])

\* String.prototype.trim
trim(s) ==
    LET keep == {k \in 1..Len(s) : ~IsWhitespace(s[k])}
    IN  IF keep = {} THEN <<>>
        ELSE Slice(s, CHOOSE k \in keep : \A m \in keep : k <= m,
                      (CHOOSE k \in keep : \A m \in keep : k >= m) + 1)

\* s.replace(/\s+/g, '-'): every maximal run of whitespace becomes one hyphen
RECURSIVE replaceWhitespaceRuns(_)
replaceWhitespaceRuns(s) ==
    IF s = <<>> THEN <<>>
    ELSE IF IsWhitespace(Head(s))
         THEN IF Len(s) > 1 /\ IsWhitespace(s[2])
              THEN replaceWhitespaceRuns(Tail(s))
              ELSE <<"-">> \o replaceWhitespaceRuns(Tail(s))
         ELSE <<Head(s)>> \o replaceWhitespaceRuns(Tail(s))

\* (text.match(/<emoji>/g) || []).length
emojiCount(s) == Cardinality({k \in 1..Len(s) : s[k] = BurritoEmoji})

Min(S) == CHOOSE x \in S : \A y \in S : x <= y
Max(S) == CHOOSE x \in S : \A y \in S : x >= y

\* a value no string equals: the result of a failed match, an absent reason
undefined == <<"undefined">>

----------------------------------------------------------------------------
(* The regular expressions of the message handler.  Each operator returns  *)
(* what the code reads from the match (a capture group), or null when the  *)
(* expression does not match.  A match is the first one in the order a     *)
(* backtracking matcher tries them: leftmost start, a greedy \s+ longest   *)
(* first, a lazy +? shortest first.                                        *)

null == <<"null">>

Give == <<"g", "i", "v", "e">>
Award == <<"a", "w", "a", "r", "d">>
Grant == <<"g", "r", "a", "n", "t">>
Burrito == <<"b", "u", "r", "r", "i", "t", "o">>
For == <<"f", "o", "r">>
To == <<"t", "o">>
AtOpen == <<"<", "a", "t", ">">>
AtClose == <<"<", "/", "a", "t", ">">>

\* (give|award|grant) at position i: the positions right after the verb
VerbEnds(s, i) == {i + Len(verb) : verb \in {lit \in {Give, Award, Grant} : LitAt(s, i, lit)}}

\* \s+(a\s+)?burrito matches at position p
TailBurrito(s, p) ==
    \E q \in (p + 1)..Len(s) :
        /\ AllWhitespace(s, p, q)
        /\ \/ LitAt(s, q, Burrito)
           \/ /\ s[q] = "a"
              /\ \E r \in (q + 2)..Len(s) :
                    AllWhitespace(s, q + 1, r) /\ LitAt(s, r, Burrito)

\* /(give|award|grant)\s+<at>([^<]+)<\/at>\s+(a\s+)?burrito/i : group 2
burritoAwardRegex(s) ==
    LET Matches(i, a, e) ==
            \E v \in VerbEnds(s, i) :
                /\ a > v /\ AllWhitespace(s, v, a)
                /\ LitAt(s, a, AtOpen)
                /\ e > a + Len(AtOpen)
                /\ \A k \in (a + Len(AtOpen))..(e - 1) : s[k] # "<"
                /\ LitAt(s, e, AtClose)
                /\ TailBurrito(s, e + Len(AtClose))
        Pos == 1..(Len(s) + 1)
        starts == {i \in Pos : \E a \in Pos, e \in Pos : Matches(i, a, e)}
    IN  IF starts = {} THEN null
        ELSE LET i0 == Min(starts)
                 a0 == CHOOSE a \in Pos : \E e \in Pos : Matches(i0, a, e)
                 e0 == CHOOSE e \in Pos : Matches(i0, a0, e)
             IN  Slice(s, a0 + Len(AtOpen), e0)

\* /for\s+(.+)$/i : group 1, or undefined (the code's "reason")
reasonRegex(s) ==
    LET Matches(i, k) ==
            /\ LitAt(s, i, For)
            /\ k > i + Len(For) /\ k <= Len(s)
            /\ AllWhitespace(s, i + Len(For), k)
            /\ \A m \in k..Len(s) : ~IsLineTerminator(s[m])
        Pos == 1..(Len(s) + 1)
        starts == {i \in Pos : \E k \in Pos : Matches(i, k)}
    IN  IF starts = {} THEN undefined
        ELSE LET i0 == Min(starts)
                 k0 == Max({k \in Pos : Matches(i0, k)})
             IN  Slice(s, k0, Len(s) + 1)

\* /(give|award|grant)\s+([a-zA-Z0-9\s_-]+?)\s+(a\s+)?burrito/i : group 2
simpleBurritoRegex(s) ==
    LET Matches(i, a, e) ==
            \E v \in VerbEnds(s, i) :
                /\ a > v /\ AllWhitespace(s, v, a)
                /\ e > a /\ AllNameChars(s, a, e)
                /\ TailBurrito(s, e)
        Pos == 1..(Len(s) + 1)
        starts == {i \in Pos : \E a \in Pos, e \in Pos : Matches(i, a, e)}
    IN  IF starts = {} THEN null
        ELSE LET i0 == Min(starts)
                 a0 == Max({a \in Pos : \E e \in Pos : Matches(i0, a, e)})
                 e0 == Min({e \in Pos : Matches(i0, a0, e)})
             IN  Slice(s, a0, e0)

\* /(?:for|to|@)\s+([a-zA-Z0-9\s_-]+?)(?:\s|$|!|\.|,)/i : group 1
nameInMessageRegex(s) ==
    LET Matches(i, a, e) ==
            \E v \in {i + Len(lit) : lit \in {l \in {For, To, <<"@">>} : LitAt(s, i, l)}} :
                /\ a > v /\ AllWhitespace(s, v, a)
                /\ e > a /\ AllNameChars(s, a, e)
                /\ \/ e = Len(s) + 1
                   \/ /\ e <= Len(s)
                      /\ (IsWhitespace(s[e]) \/ s[e] \in {"!", ".", ","})
        Pos == 1..(Len(s) + 1)
        starts == {i \in Pos : \E a \in Pos, e \in Pos : Matches(i, a, e)}
    IN  IF starts = {} THEN null
        ELSE LET i0 == Min(starts)
                 a0 == Max({a \in Pos : \E e \in Pos : Matches(i0, a, e)})
                 e0 == Min({e \in Pos : Matches(i0, a0, e)})
             IN  Slice(s, a0, e0)

\* /([a-zA-Z0-9\s_-]+?)\s*<emoji>/i : group 1
nameAtEndRegex(s) ==
    LET Matches(i, e) ==
            /\ e > i /\ AllNameChars(s, i, e)
            /\ \E q \in e..Len(s) : AllWhitespace(s, e, q) /\ s[q] = BurritoEmoji
        Pos == 1..(Len(s) + 1)
        starts == {i \in Pos : \E e \in Pos : Matches(i, e)}
    IN  IF starts = {} THEN null
        ELSE LET i0 == Min(starts)
                 e0 == Min({e \in Pos : Matches(i0, e)})
             IN  Slice(s, i0, e0)

\* /^([a-zA-Z0-9\s_-]+?)\s/i : group 1
nameAtStartRegex(s) ==
    LET ends == {e \in 2..Len(s) : AllNameChars(s, 1, e) /\ IsWhitespace(s[e])}
    IN  IF ends = {} THEN null ELSE Slice(s, 1, Min(ends))

\* /<at>([^<]+)<\/at>/ : group 1
atMentionRegex(s) ==
    LET Matches(a, e) ==
            /\ LitAt(s, a, AtOpen)
            /\ e > a + Len(AtOpen)
            /\ \A k \in (a + Len(AtOpen))..(e - 1) : s[k] # "<"
            /\ LitAt(s, e, AtClose)
        Pos == 1..(Len(s) + 1)
        starts == {a \in Pos : \E e \in Pos : Matches(a, e)}
    IN  IF starts = {} THEN null
        ELSE LET a0 == Min(starts)
             IN  Slice(s, a0 + Len(AtOpen), CHOOSE e \in Pos : Matches(a0, e))

\* command.split(' ')[n] (n counted from 0), or undefined
splitPart(s, n) ==
    LET spaces == {k \in 1..Len(s) : s[k] = " "}
        \* the position of the m-th space, 0 for m = 0, Len(s)+1 past the last
        nth(m) == IF m = 0 THEN 0
                  ELSE IF Cardinality(spaces) < m THEN Len(s) + 1
                  ELSE CHOOSE k \in spaces : Cardinality({j \in spaces : j <= k}) = m
    IN  IF Cardinality(spaces) < n THEN undefined
        ELSE Slice(s, nth(n) + 1, nth(n + 1))

----------------------------------------------------------------------------
(* Conversation data (interface ConversationData).  userStats is a Map: it  *)
(* is kept as the sequence of its values in insertion order, one entry per  *)
(* key.  An award's id is a random string the code never reads again; it is *)
(* not part of the model.  Dates are day numbers (see the report section).  *)

MapHas(m, key) == \E i \in 1..Len(m) : m[i].userId = key

MapGet(m, key) == m[CHOOSE i \in 1..Len(m) : m[i].userId = key]

\* Map.prototype.set: an existing key keeps its place, a new key goes last
MapSet(m, key, value) ==
    IF MapHas(m, key)
    THEN [i \in 1..Len(m) |-> IF m[i].userId = key THEN value ELSE m[i]]
    ELSE Append(m, value)

\* the object getConversationData creates for a conversation it has not seen
NewConversationData(conversationId) ==
    [conversationId |-> conversationId,
     admins |-> <<>>,
     burritoAwards |-> <<>>,
     userStats |-> <<>>]

\* getConversationData registering a fresh state on every call
getConversationDataFresh(store, conversationId) ==
    [c \in DOMAIN store \cup {conversationId} |->
        IF c = conversationId THEN NewConversationData(conversationId) ELSE store[c]]

\* the store after getConversationData(conversationId)
getConversationData(store, conversationId) ==
    IF conversationId \in DOMAIN store
    THEN store
    ELSE [c \in DOMAIN store \cup {conversationId} |->
            IF c = conversationId THEN NewConversationData(conversationId) ELSE store[c]]

\* saveConversationData keeping the saved state only
saveConversationDataAlone(store, data) == [c \in {data.conversationId} |-> data]

\* the store after saveConversationData(data)
saveConversationData(store, data) ==
    [c \in DOMAIN store \cup {data.conversationId} |->
        IF c = data.conversationId THEN data ELSE store[c]]

\* isAdmin answering whether the conversation has any admin at all
isAdminWhenAnyAdmin(userId, conversationData) ==
    Len(conversationData.admins) > 0

isAdmin(userId, conversationData) ==
    \E i \in 1..Len(conversationData.admins) : conversationData.admins[i] = userId

NewUserStats(userId, userName, date) ==
    [userId |-> userId, userName |-> userName,
     totalReceived |-> 0, totalGiven |-> 0, lastUpdated |-> date]

\* awardBurrito with the giver's entry read before the recipient's entry is
\* stored: when recipient and giver are one user, the giver's update
\* overwrites the recipient's
awardBurritoStaleGiver(conversationData, recipientId, recipientName, giverId, giverName, reason, date) ==
    LET award == [recipientId |-> recipientId,
                  recipientName |-> recipientName,
                  giverId |-> giverId,
                  giverName |-> giverName,
                  conversationId |-> conversationData.conversationId,
                  timestamp |-> date,
                  reason |-> reason]
        recipientStats ==
            IF MapHas(conversationData.userStats, recipientId)
            THEN MapGet(conversationData.userStats, recipientId)
            ELSE NewUserStats(recipientId, recipientName, date)
        afterRecipient ==
            MapSet(conversationData.userStats, recipientId,
                   [recipientStats EXCEPT !.totalReceived = @ + 1,
                                          !.userName = recipientName,
                                          !.lastUpdated = date])
        giverStats ==
            IF MapHas(conversationData.userStats, giverId)
            THEN MapGet(conversationData.userStats, giverId)
            ELSE NewUserStats(giverId, giverName, date)
        afterGiver ==
            MapSet(afterRecipient, giverId,
                   [giverStats EXCEPT !.totalGiven = @ + 1,
                                      !.userName = giverName,
                                      !.lastUpdated = date])
    IN  [conversationData EXCEPT !.burritoAwards = Append(@, award),
                                 !.userStats = afterGiver]

\* awardBurrito: the conversation data after the call, made at date `date`
awardBurrito(conversationData, recipientId, recipientName, giverId, giverName, reason, date) ==
    LET award == [recipientId |-> recipientId,
                  recipientName |-> recipientName,
                  giverId |-> giverId,
                  giverName |-> giverName,
                  conversationId |-> conversationData.conversationId,
                  timestamp |-> date,
                  reason |-> reason]
        recipientStats ==
            IF MapHas(conversationData.userStats, recipientId)
            THEN MapGet(conversationData.userStats, recipientId)
            ELSE NewUserStats(recipientId, recipientName, date)
        afterRecipient ==
            MapSet(conversationData.userStats, recipientId,
                   [recipientStats EXCEPT !.totalReceived = @ + 1,
                                          !.userName = recipientName,
                                          !.lastUpdated = date])
        giverStats ==
            IF MapHas(afterRecipient, giverId)
            THEN MapGet(afterRecipient, giverId)
            ELSE NewUserStats(giverId, giverName, date)
        afterGiver ==
            MapSet(afterRecipient, giverId,
                   [giverStats EXCEPT !.totalGiven = @ + 1,
                                      !.userName = giverName,
                                      !.lastUpdated = date])
    IN  [conversationData EXCEPT !.burritoAwards = Append(@, award),
                                 !.userStats = afterGiver]

\* the loop left after its first round
awardBurritosOnce(conversationData, burritosToAward, recipientId, recipientName, giverId, giverName, reason, date) ==
    awardBurrito(conversationData, recipientId, recipientName, giverId, giverName, reason, date)

\* the loop "for (i = 0; i < burritosToAward; i++) awardBurrito(...)"
RECURSIVE awardBurritos(_, _, _, _, _, _, _, _)
awardBurritos(conversationData, burritosToAward, recipientId, recipientName, giverId, giverName, reason, date) ==
    IF burritosToAward <= 0 THEN conversationData
    ELSE awardBurritos(
            awardBurrito(conversationData, recipientId, recipientName,
                         giverId, giverName, reason, date),
            burritosToAward - 1, recipientId, recipientName,
            giverId, giverName, reason, date)

----------------------------------------------------------------------------
(* Dates.  A Date is modelled by its local calendar day, counted in days   *)
(* from 1970-01-01; the time of day plays no part in any period key.       *)

\* the day number of the calendar date year-month-day (month 1..12)
DaysFromCivil(year, month, day) ==
    LET y == IF month <= 2 THEN year - 1 ELSE year
        era == y \div 400
        yoe == y - era * 400
        mp == IF month > 2 THEN month - 3 ELSE month + 9
        doy == (153 * mp + 2) \div 5 + day - 1
        doe == yoe * 365 + yoe \div 4 - yoe \div 100 + doy
    IN  era * 146097 + doe - 719468

\* <<getFullYear(), getMonth(), getDate()>> of a day number (getMonth is
\* 0..11), computed in steps: the 400-year era and the day of the era, the
\* year of the era, the day of the year counted from 1 March, the month
\* counted from March
CivilFromMp(era, yoe, doy, mp) ==
    <<yoe + era * 400 + (IF mp < 10 THEN 0 ELSE 1),
      IF mp < 10 THEN mp + 2 ELSE mp - 10,
      doy - (153 * mp + 2) \div 5 + 1>>

CivilFromDoy(era, yoe, doy) == CivilFromMp(era, yoe, doy, (5 * doy + 2) \div 153)

CivilFromYoe(era, doe, yoe) ==
    CivilFromDoy(era, yoe, doe - (365 * yoe + yoe \div 4 - yoe \div 100))

CivilFromDoe(era, doe) ==
    CivilFromYoe(era, doe,
                 (doe - doe \div 1460 + doe \div 36524 - doe \div 146096) \div 365)

CivilFromDays(d) == CivilFromDoe((d + 719468) \div 146097, (d + 719468) % 146097)

\* Date.prototype.getDay: 0 is Sunday (1970-01-01 was a Thursday)
getDay(d) == (d + 4) % 7

Periods == {"daily", "weekly", "monthly", "yearly"}

\* the key of a date whose parts are known; startOfWeek is the parts of the
\* Sunday on or before it
DateKeyOf(civil, startOfWeek, period) ==
    CASE period = "daily" -> <<civil[1], civil[2] + 1, civil[3]>>
      [] period = "weekly" -> <<startOfWeek[1], "W", (startOfWeek[3] + 6) \div 7>>
      [] period = "monthly" -> <<civil[1], civil[2] + 1>>
      [] period = "yearly" -> <<civil[1]>>
      [] OTHER -> <<civil[1], civil[2] + 1, civil[3]>>

\* getDateKey.  The key string joins numbers with "-" (and "-W"), which is
\* one-to-one on the numbers, so the key is modelled as the tuple of them.
\* Math.ceil(n / 7) is (n + 6) \div 7.
getDateKey(date, period) ==
    DateKeyOf(CivilFromDays(date), CivilFromDays(date - getDay(date)), period)

----------------------------------------------------------------------------
(* Replies.  A reply is the template the code fills and the values it      *)
(* fills in, not the rendered text.                                        *)

Reply(kind) ==
    [kind |-> kind, name |-> <<>>, from |-> <<>>, reason |-> undefined,
     count |-> 0, received |-> 0, given |-> 0, emojis |-> 0,
     group |-> FALSE, admin |-> FALSE, period |-> "", body |-> <<>>]

\* Array.prototype.sort((a, b) => key(b) - key(a)): stable, descending by
\* key; keys[i] is the key of seq[i]
SortDescending(seq, keys) ==
    LET place(i) == 1 + Cardinality({j \in 1..Len(seq) :
                        \/ keys[j] > keys[i]
                        \/ keys[j] = keys[i] /\ j < i})
    IN  [n \in 1..Len(seq) |-> seq[CHOOSE i \in 1..Len(seq) : place(i) = n]]

\* Array.prototype.slice(0, n)
Take(seq, n) == [i \in 1..(IF Len(seq) < n THEN Len(seq) ELSE n) |-> seq[i]]

LeaderboardSize == 10

ReportTopSize == 5

\* the sort keys of showLeaderboard
totalReceivedOf(userStatsArray) ==
    [i \in 1..Len(userStatsArray) |-> userStatsArray[i].totalReceived]

\* the stats entries left in the order of the Map
insertionOrder(userStatsArray) == userStatsArray

\* the leaderboard order of the stats entries
sortByTotalReceived(userStatsArray) ==
    SortDescending(userStatsArray, totalReceivedOf(userStatsArray))

\* showLeaderboard: the one reply it sends
showLeaderboard(conversationData) ==
    LET userStatsArray ==
            Take(sortByTotalReceived(conversationData.userStats), LeaderboardSize)
    IN  IF Len(userStatsArray) = 0
        THEN Reply("leaderboardEmpty")
        ELSE [Reply("leaderboard") EXCEPT
                !.body = [i \in 1..Len(userStatsArray) |->
                            <<userStatsArray[i].userName, userStatsArray[i].totalReceived>>]]

\* the Map name -> count built by the forEach of generateReport, as the
\* sequence of its <<name, count>> entries in insertion order
RECURSIVE tally(_, _)
tally(names, counts) ==
    IF names = <<>> THEN counts
    ELSE LET name == Head(names)
             known == \E i \in 1..Len(counts) : counts[i][1] = name
         IN  tally(Tail(names),
                   IF known
                   THEN [i \in 1..Len(counts) |->
                            IF counts[i][1] = name
                            THEN <<name, counts[i][2] + 1>> ELSE counts[i]]
                   ELSE Append(counts, <<name, 1>>))

\* the sort keys of the report's two lists
countOf(entries) == [i \in 1..Len(entries) |-> entries[i][2]]

\* the <<name, count>> entries left in the order of the Map
entriesUnsorted(entries) == entries

\* the report order of the <<name, count>> entries
sortByCount(entries) == SortDescending(entries, countOf(entries))

\* the report on the awards of the period
ReportOf(period, periodKey, periodAwards) ==
    IF Len(periodAwards) = 0
    THEN [Reply("reportEmpty") EXCEPT !.period = period]
    ELSE [Reply("report") EXCEPT
            !.period = period,
            !.count = Len(periodAwards),
            !.body = <<periodKey,
                       Take(sortByCount(
                                tally([i \in 1..Len(periodAwards) |->
                                          periodAwards[i].recipientName], <<>>)),
                            ReportTopSize),
                       Take(sortByCount(
                                tally([i \in 1..Len(periodAwards) |->
                                          periodAwards[i].giverName], <<>>)),
                            ReportTopSize)>>]

\* the filter of generateReport letting every award through
PeriodAwardsAll(awards, period, periodKey) == awards

\* burritoAwards.filter(award => getDateKey(award.timestamp, period) === periodKey)
PeriodAwards(awards, period, periodKey) ==
    LET InPeriod(award) == getDateKey(award.timestamp, period) = periodKey
    IN  SelectSeq(awards, InPeriod)

\* generateReport(conversationData, period, date): the report, as a reply
generateReport(conversationData, period, targetDate) ==
    ReportOf(period, getDateKey(targetDate, period),
             PeriodAwards(conversationData.burritoAwards, period,
                          getDateKey(targetDate, period)))

----------------------------------------------------------------------------
(* handleAdminCommand                                                      *)

AddWord == <<"a", "d", "d">>
ReportWord == <<"r", "e", "p", "o", "r", "t">>
StatsWord == <<"s", "t", "a", "t", "s">>
LeaderboardWord == <<"l", "e", "a", "d", "e", "r", "b", "o", "a", "r", "d">>

\* the period a lower-cased argument names, or "" when it names none
PeriodNamed(word) ==
    CASE word = <<"d", "a", "i", "l", "y">> -> "daily"
      [] word = <<"w", "e", "e", "k", "l", "y">> -> "weekly"
      [] word = <<"m", "o", "n", "t", "h", "l", "y">> -> "monthly"
      [] word = <<"y", "e", "a", "r", "l", "y">> -> "yearly"
      [] OTHER -> ""

\* handleAdminCommand(command, conversationData, send) at date `date`: the
\* replies it sends.  It changes nothing of the conversation data.
handleAdminCommand(command, conversationData, date) ==
    LET subCommand == splitPart(command, 1)
        period == PeriodNamed(splitPart(command, 2))
        mention == atMentionRegex(command)
        found == {i \in 1..Len(conversationData.userStats) :
                    conversationData.userStats[i].userName = mention}
    IN  CASE subCommand = AddWord ->
                IF mention = null
                THEN <<Reply("adminAddUsage")>>
                ELSE <<Reply("adminAddNeedsSetup")>>
          [] subCommand = ReportWord ->
                IF period \notin Periods
                THEN <<Reply("reportUsage")>>
                ELSE <<generateReport(conversationData, period, date)>>
          [] subCommand = StatsWord ->
                IF mention = null
                THEN <<Reply("statsUsage")>>
                ELSE IF found # {}
                     THEN LET userStats == conversationData.userStats[Min(found)]
                          IN  <<[Reply("userStats") EXCEPT
                                    !.name = mention,
                                    !.received = userStats.totalReceived,
                                    !.given = userStats.totalGiven]>>
                     ELSE <<[Reply("noUserStats") EXCEPT !.name = mention]>>
          [] subCommand = LeaderboardWord ->
                <<showLeaderboard(conversationData)>>
          [] OTHER -> <<Reply("adminHelp")>>

----------------------------------------------------------------------------
(* The message handler, app.on('message', ...)                             *)

MakeAdminText == <<"/", "m", "a", "k", "e", "a", "d", "m", "i", "n">>
MakeMeAdminText == <<"/", "m", "a", "k", "e", "m", "e", "a", "d", "m", "i", "n">>
DebugText == <<"/", "d", "e", "b", "u", "g">>
InfoText == <<"/", "i", "n", "f", "o">>
AdminMarker == <<"/", "a", "d", "m", "i", "n">>
MyBurritosText == <<"m", "y", " ", "b", "u", "r", "r", "i", "t", "o", "s">>
BurritoCountText == <<"b", "u", "r", "r", "i", "t", "o", " ", "c", "o", "u", "n", "t">>
BurritoLeaderboardText == <<"b", "u", "r", "r", "i", "t", "o", " ", "l", "e", "a", "d", "e", "r", "b", "o", "a", "r", "d">>
TopBurritosText == <<"t", "o", "p", " ", "b", "u", "r", "r", "i", "t", "o", "s">>
HelpText == <<"h", "e", "l", "p">>
WhatCanYouDoText == <<"w", "h", "a", "t", " ", "c", "a", "n", " ", "y", "o", "u", " ", "d", "o">>
CommandsText == <<"c", "o", "m", "m", "a", "n", "d", "s">>
HelloText == <<"h", "e", "l", "l", "o">>
HiText == <<"h", "i">>
HeyText == <<"h", "e", "y">>
DemoUserPrefix == <<"d", "e", "m", "o", "-", "u", "s", "e", "r", "-">>
EmojiAwardReason == <<"e", "m", "o", "j", "i", " ", "a", "w", "a", "r", "d">>
UnknownUser == <<"U", "n", "k", "n", "o", "w", "n", " ", "U", "s", "e", "r">>

commonWords ==
    {<<"g", "r", "e", "a", "t">>,
     <<"g", "o", "o", "d">>,
     <<"n", "i", "c", "e">>,
     <<"a", "w", "e", "s", "o", "m", "e">>,
     <<"a", "m", "a", "z", "i", "n", "g">>,
     <<"e", "x", "c", "e", "l", "l", "e", "n", "t">>,
     <<"w", "e", "l", "l">>,
     <<"d", "o", "n", "e">>,
     <<"w", "o", "r", "k">>,
     <<"j", "o", "b">>,
     <<"t", "h", "a", "n", "k", "s">>,
     <<"t", "h", "a", "n", "k">>,
     <<"y", "o", "u">>}

\* everything the handler reads from the message text alone
Parse(text) ==
    LET userMessage == toLowerCase(text)
    IN  [userMessage |-> userMessage,
         burritoAwardMatch |-> burritoAwardRegex(userMessage),
         reasonMatch |-> reasonRegex(userMessage),
         simpleBurritoMatch |-> simpleBurritoRegex(userMessage),
         burritoEmojiCount |-> emojiCount(text),
         nameInMessage |-> nameInMessageRegex(userMessage),
         nameAtEnd |-> nameAtEndRegex(userMessage),
         nameAtStart |-> nameAtStartRegex(userMessage),
         startsWithVerb |-> \/ startsWith(userMessage, Give)
                            \/ startsWith(userMessage, Award)
                            \/ startsWith(userMessage, Grant),
         asksStats |-> \/ includes(userMessage, MyBurritosText)
                       \/ includes(userMessage, BurritoCountText),
         asksLeaderboard |-> \/ includes(userMessage, BurritoLeaderboardText)
                             \/ includes(userMessage, TopBurritosText),
         asksHelp |-> \/ includes(userMessage, HelpText)
                      \/ includes(userMessage, WhatCanYouDoText),
         greets |-> \/ includes(userMessage, HelloText)
                    \/ includes(userMessage, HiText)
                    \/ includes(userMessage, HeyText)]

\* `demo-user-${recipientName.toLowerCase().replace(/\s+/g, '-')}`
demoRecipientId(recipientName) ==
    DemoUserPrefix \o replaceWhitespaceRuns(toLowerCase(recipientName))

\* the mention-path guard: recipientId === userId
isSelfAwardById(recipientId, userId) == recipientId = userId

\* the name comparison without folding case
isSelfAwardByNameExact(recipientName, userName) ==
    recipientName = userName

\* the name-path guard: recipientName.toLowerCase() === userName.toLowerCase()
isSelfAwardByName(recipientName, userName) ==
    toLowerCase(recipientName) = toLowerCase(userName)

\* the emoji count taken as it is, without the floor at 1
burritosToAwardRaw(burritoEmojiCount) == burritoEmojiCount

\* Math.max(1, burritoEmojiCount)
burritosToAwardByName(burritoEmojiCount) ==
    IF burritoEmojiCount > 1 THEN burritoEmojiCount ELSE 1

\* the recipient name of the emoji-only rule, '' when none is found
emojiRecipientName(p) ==
    IF p.nameInMessage # null THEN trim(p.nameInMessage)
    ELSE IF p.nameAtEnd # null THEN trim(p.nameAtEnd)
    ELSE IF p.nameAtStart # null /\ ~p.startsWithVerb THEN trim(p.nameAtStart)
    ELSE <<>>

\* "if (recipientStats) send(`... now has ${totalReceived} ...`)"
totalReply(conversationData, recipientId, recipientName) ==
    IF MapHas(conversationData.userStats, recipientId)
    THEN <<[Reply("total") EXCEPT
              !.name = recipientName,
              !.received = MapGet(conversationData.userStats, recipientId).totalReceived]>>
    ELSE <<>>

Result(data, replies, rule) == [data |-> data, replies |-> replies, rule |-> rule]

\* a rule that did not fully match: the handler goes on to the next rule
NoMatch == "none"

\* activity.conversation.isGroup || conversationType === 'groupChat' || ... 'channel'
isGroupChatOf(conversation) ==
    \/ conversation.isGroup
    \/ conversation.conversationType = "groupChat"
    \/ conversation.conversationType = "channel"

\* activity.from.name || 'Unknown User'
userNameOf(from) == IF from.name = <<>> THEN UnknownUser ELSE from.name

\* "/makeadmin" without the test for the sender being an admin already
makeAdminAlways(conversationData, userId, userName) ==
    Result([conversationData EXCEPT !.admins = Append(@, userId)],
           <<[Reply("adminSuccess") EXCEPT !.name = userName]>>, "makeadmin")

\* "/makeadmin" promoting the first user the stats mapping holds instead of
\* the sender
makeAdminOfAnother(conversationData, userId, userName) ==
    IF conversationData.userStats # <<>>
    THEN Result([conversationData EXCEPT !.admins = Append(@, conversationData.userStats[1].userId)],
                <<[Reply("adminSuccess") EXCEPT !.name = userName]>>, "makeadmin")
    ELSE Result([conversationData EXCEPT !.admins = Append(@, userId)],
                <<[Reply("adminSuccess") EXCEPT !.name = userName]>>, "makeadmin")

\* rule 1, "/makeadmin" and "/makemeadmin"
makeAdmin(conversationData, userId, userName) ==
    IF ~(\E i \in 1..Len(conversationData.admins) : conversationData.admins[i] = userId)
    THEN Result([conversationData EXCEPT !.admins = Append(@, userId)],
                <<[Reply("adminSuccess") EXCEPT !.name = userName]>>, "makeadmin")
    ELSE Result(conversationData,
                <<[Reply("alreadyAdmin") EXCEPT !.name = userName]>>, "makeadmin")

\* mentions.find(m => m.text === `<at>${recipientName}</at>`)?.mentioned.id,
\* null when the text has no mention award or no mention entity has that text
mentionedId(activity, p) ==
    LET IsMention(e) == e.type = "mention"
        mentions == SelectSeq(activity.entities, IsMention)
        hits == {i \in 1..Len(mentions) :
                    mentions[i].text = AtOpen \o p.burritoAwardMatch \o AtClose}
    IN  IF p.burritoAwardMatch = null \/ hits = {}
        THEN null
        ELSE mentions[Min(hits)].mentioned.id

\* Method 1: group chat with @mentions
mentionAward(conversationData, activity, p, date) ==
    LET userId == activity.from.id
        userName == userNameOf(activity.from)
        recipientName == p.burritoAwardMatch
        reason == p.reasonMatch
        recipientId == mentionedId(activity, p)
        awarded == awardBurrito(conversationData, recipientId, recipientName,
                                userId, userName, reason, date)
    IN  IF ~isGroupChatOf(activity.conversation) \/ recipientId = null
        THEN Result(conversationData, <<>>, NoMatch)
        ELSE IF isSelfAwardById(recipientId, userId)
             THEN Result(conversationData, <<Reply("selfAward")>>, "mention")
             ELSE Result(awarded,
                         <<[Reply("awarded") EXCEPT
                              !.name = recipientName, !.from = userName,
                              !.reason = reason, !.count = 1]>>
                         \o totalReply(awarded, recipientId, recipientName),
                         "mention")

\* Method 2: simple burrito awarding by name
nameAward(conversationData, activity, p, date) ==
    LET userId == activity.from.id
        userName == userNameOf(activity.from)
        recipientName == trim(p.simpleBurritoMatch)
        reason == p.reasonMatch
        burritosToAward == burritosToAwardByName(p.burritoEmojiCount)
        recipientId == demoRecipientId(recipientName)
        awarded == awardBurritos(conversationData, burritosToAward, recipientId,
                                 recipientName, userId, userName, reason, date)
    IN  IF \/ p.simpleBurritoMatch = null
           \/ includes(recipientName, AtOpen)
           \/ includes(recipientName, <<"@">>)
        THEN Result(conversationData, <<>>, NoMatch)
        ELSE IF isSelfAwardByName(recipientName, userName)
             THEN Result(conversationData, <<Reply("selfAward")>>, "name")
             ELSE Result(awarded,
                         <<[Reply("awardedByName") EXCEPT
                              !.name = recipientName, !.from = userName,
                              !.reason = reason, !.count = burritosToAward,
                              !.emojis = p.burritoEmojiCount,
                              !.group = isGroupChatOf(activity.conversation)]>>
                         \o totalReply(awarded, recipientId, recipientName),
                         "name")

\* Method 3: emoji-only burrito awarding
emojiAward(conversationData, activity, p, date) ==
    LET userId == activity.from.id
        userName == userNameOf(activity.from)
        recipientName == emojiRecipientName(p)
        burritosToAward == p.burritoEmojiCount
        recipientId == demoRecipientId(recipientName)
        awarded == awardBurritos(conversationData, burritosToAward, recipientId,
                                 recipientName, userId, userName, EmojiAwardReason, date)
    IN  IF \/ p.burritoEmojiCount = 0
           \/ recipientName = <<>>
           \/ Len(recipientName) <= 1
           \/ toLowerCase(recipientName) \in commonWords
        THEN Result(conversationData, <<>>, NoMatch)
        ELSE IF isSelfAwardByName(recipientName, userName)
             THEN Result(conversationData, <<Reply("selfAwardEmoji")>>, "emoji")
             ELSE Result(awarded,
                         <<[Reply("awardedByEmoji") EXCEPT
                              !.name = recipientName, !.from = userName,
                              !.count = burritosToAward, !.emojis = burritosToAward,
                              !.group = isGroupChatOf(activity.conversation)]>>
                         \o totalReply(awarded, recipientId, recipientName),
                         "emoji")

\* "my burritos" with the two counters taken for each other
myBurritosSwapped(conversationData, userId, userName) ==
    IF MapHas(conversationData.userStats, userId)
    THEN [Reply("myBurritos") EXCEPT
            !.name = userName,
            !.received = MapGet(conversationData.userStats, userId).totalGiven,
            !.given = MapGet(conversationData.userStats, userId).totalReceived]
    ELSE [Reply("noBurritos") EXCEPT !.name = userName]

\* "my burritos" / "burrito count"
myBurritos(conversationData, userId, userName) ==
    IF MapHas(conversationData.userStats, userId)
    THEN [Reply("myBurritos") EXCEPT
            !.name = userName,
            !.received = MapGet(conversationData.userStats, userId).totalReceived,
            !.given = MapGet(conversationData.userStats, userId).totalGiven]
    ELSE [Reply("noBurritos") EXCEPT !.name = userName]

\* the rules after the award rules, none of which changes the data
\* the query rules with the greeting tried before the help
queryRulesGreetingFirst(conversationData, activity, p) ==
    LET userMessage == p.userMessage
        userId == activity.from.id
        userName == userNameOf(activity.from)
        isGroupChat == isGroupChatOf(activity.conversation)
        admin == isAdmin(userId, conversationData)
    IN  IF p.asksStats
        THEN Result(conversationData,
                    <<myBurritos(conversationData, userId, userName)>>, "stats")
        ELSE IF p.asksLeaderboard
        THEN Result(conversationData, <<showLeaderboard(conversationData)>>, "leaderboard")
        ELSE IF p.greets
        THEN Result(conversationData,
                    <<[Reply("greeting") EXCEPT !.group = isGroupChat]>>, "greeting")
        ELSE IF p.asksHelp
        THEN Result(conversationData,
                    <<[Reply("help") EXCEPT !.group = isGroupChat, !.admin = admin]>>, "help")
        ELSE IF userMessage = HelpText \/ userMessage = CommandsText
        THEN Result(conversationData,
                    <<[Reply("generalHelp") EXCEPT !.group = isGroupChat, !.admin = admin]>>,
                    "generalHelp")
        ELSE Result(conversationData,
                    <<[Reply("default") EXCEPT !.group = isGroupChat]>>, "fallback")

\* the query rules answering on a state made anew
queryRulesOnFreshData(conversationData, activity, p) ==
    Result(NewConversationData(conversationData.conversationId),
           <<[Reply("default") EXCEPT !.group = isGroupChatOf(activity.conversation)]>>,
           "fallback")

queryRules(conversationData, activity, p) ==
    LET userMessage == p.userMessage
        userId == activity.from.id
        userName == userNameOf(activity.from)
        isGroupChat == isGroupChatOf(activity.conversation)
        admin == isAdmin(userId, conversationData)
    IN  IF p.asksStats
        THEN Result(conversationData,
                    <<myBurritos(conversationData, userId, userName)>>, "stats")
        ELSE IF p.asksLeaderboard
        THEN Result(conversationData, <<showLeaderboard(conversationData)>>, "leaderboard")
        ELSE IF p.asksHelp
        THEN Result(conversationData,
                    <<[Reply("help") EXCEPT !.group = isGroupChat, !.admin = admin]>>, "help")
        ELSE IF userMessage = HelpText \/ userMessage = CommandsText
        THEN Result(conversationData,
                    <<[Reply("generalHelp") EXCEPT !.group = isGroupChat, !.admin = admin]>>,
                    "generalHelp")
        ELSE IF p.greets
        THEN Result(conversationData,
                    <<[Reply("greeting") EXCEPT !.group = isGroupChat]>>, "greeting")
        ELSE Result(conversationData,
                    <<[Reply("default") EXCEPT !.group = isGroupChat]>>, "fallback")

\* the body of the message handler, after getConversationData: the
\* conversation data it leaves, the replies it sends in order, and the rule
\* that answered.  p is Parse(activity.text).
handleMessage(conversationData, activity, p, date) ==
    LET userMessage == p.userMessage
        userId == activity.from.id
        userName == userNameOf(activity.from)
        byMention == mentionAward(conversationData, activity, p, date)
        byName == nameAward(conversationData, activity, p, date)
        byEmoji == emojiAward(conversationData, activity, p, date)
    IN  IF userMessage = MakeAdminText \/ userMessage = MakeMeAdminText
        THEN makeAdmin(conversationData, userId, userName)
        ELSE IF userMessage = DebugText \/ userMessage = InfoText
        THEN Result(conversationData,
                    <<[Reply("debugInfo") EXCEPT
                         !.name = userName,
                         !.group = isGroupChatOf(activity.conversation),
                         !.admin = isAdmin(userId, conversationData),
                         !.count = Len(conversationData.admins)]>>, "debug")
        ELSE IF startsWith(userMessage, AdminMarker)
        THEN IF ~isAdmin(userId, conversationData)
             THEN Result(conversationData, <<Reply("notAdmin")>>, "admin")
             ELSE Result(conversationData,
                         handleAdminCommand(userMessage, conversationData, date), "admin")
        ELSE IF byMention.rule # NoMatch THEN byMention
        ELSE IF byName.rule # NoMatch THEN byName
        ELSE IF byEmoji.rule # NoMatch THEN byEmoji
        ELSE queryRules(conversationData, activity, p)

----------------------------------------------------------------------------
(* The inputs: who writes, where, and what.                                *)

\* a member of the group chat
Alice == [id |-> <<"u", "1">>, name |-> <<"A", "l", "i", "c", "e">>]

\* a member of the group chat
Sam == [id |-> <<"u", "2">>, name |-> <<"S", "a", "m">>]

\* the user of the personal chat, whose platform identifier is the one the
\* name rules make up for the name "tina", and whose display name is a
\* stoplist word
Good == [id |-> <<"d", "e", "m", "o", "-", "u", "s", "e", "r", "-", "t", "i", "n", "a">>, name |-> <<"G", "o", "o", "d">>]

GroupChat == [id |-> "c1", isGroup |-> TRUE, conversationType |-> "groupChat"]

PersonalChat == [id |-> "c2", isGroup |-> FALSE, conversationType |-> "personal"]

TextGiveMention == <<"g", "i", "v", "e", " ", "<", "a", "t", ">", "s", "a", "m", "<", "/", "a", "t", ">", " ", "a", " ", "b", "u", "r", "r", "i", "t", "o">>
TextGiveMentionUpper == <<"g", "i", "v", "e", " ", "<", "a", "t", ">", "S", "a", "m", "<", "/", "a", "t", ">", " ", "a", " ", "b", "u", "r", "r", "i", "t", "o">>
TextGiveSamFor == <<"g", "i", "v", "e", " ", "S", "a", "m", " ", "a", " ", "b", "u", "r", "r", "i", "t", "o", " ", "f", "o", "r", " ", "g", "r", "e", "a", "t", " ", "d", "e", "b", "u", "g", "g", "i", "n", "g">>
TextGiveSamEmojis == <<"g", "i", "v", "e", " ", "s", "a", "m", " ", "a", " ", "b", "u", "r", "r", "i", "t", "o", " ", ":burrito:", ":burrito:">>
TextAmazingTina == <<"A", "m", "a", "z", "i", "n", "g", " ", "w", "o", "r", "k", " ", "T", "i", "n", "a", "!", " ", ":burrito:", ":burrito:">>
TextSamEmojis == <<"s", "a", "m", " ", ":burrito:", ":burrito:">>
TextEmojiForTina == <<":burrito:", " ", "f", "o", "r", " ", "t", "i", "n", "a">>
TextGoodEmoji == <<"G", "o", "o", "d", " ", ":burrito:">>
TextMyBurritos == <<"m", "y", " ", "b", "u", "r", "r", "i", "t", "o", "s">>
TextMakeAdmin == <<"/", "m", "a", "k", "e", "a", "d", "m", "i", "n">>
TextAdminReport == <<"/", "a", "d", "m", "i", "n", " ", "r", "e", "p", "o", "r", "t", " ", "d", "a", "i", "l", "y">>
TextAdminLeaderboard == <<"/", "a", "d", "m", "i", "n", " ", "l", "e", "a", "d", "e", "r", "b", "o", "a", "r", "d">>
TextAdminStats == <<"/", "a", "d", "m", "i", "n", " ", "s", "t", "a", "t", "s", " ", "<", "a", "t", ">", "s", "a", "m", "<", "/", "a", "t", ">">>
TextAdminAdd == <<"/", "a", "d", "m", "i", "n", " ", "a", "d", "d", " ", "<", "a", "t", ">", "s", "a", "m", "<", "/", "a", "t", ">">>
TextAdmin == <<"/", "a", "d", "m", "i", "n">>
TextAdminReportWeekly == <<"/", "a", "d", "m", "i", "n", " ", "r", "e", "p", "o", "r", "t", " ", "w", "e", "e", "k", "l", "y">>
TextAdminReportMonthly == <<"/", "a", "d", "m", "i", "n", " ", "r", "e", "p", "o", "r", "t", " ", "m", "o", "n", "t", "h", "l", "y">>
TextAdminReportYearly == <<"/", "a", "d", "m", "i", "n", " ", "r", "e", "p", "o", "r", "t", " ", "y", "e", "a", "r", "l", "y">>
TextDebug == <<"/", "d", "e", "b", "u", "g">>
TextAdminReportHourly == <<"/", "a", "d", "m", "i", "n", " ", "r", "e", "p", "o", "r", "t", " ", "h", "o", "u", "r", "l", "y">>
TextAdminReportNone == <<"/", "a", "d", "m", "i", "n", " ", "r", "e", "p", "o", "r", "t">>
TextAdminStatsNone == <<"/", "a", "d", "m", "i", "n", " ", "s", "t", "a", "t", "s">>
TextAdminAddNone == <<"/", "a", "d", "m", "i", "n", " ", "a", "d", "d">>
TextAdminHelp == <<"/", "a", "d", "m", "i", "n", " ", "h", "e", "l", "p">>
TextGiveSamHello == <<"g", "i", "v", "e", " ", "S", "a", "m", " ", "a", " ", "b", "u", "r", "r", "i", "t", "o", ",", " ", "h", "e", "l", "l", "o">>
TextHelp == <<"h", "e", "l", "p">>
TextCommands == <<"c", "o", "m", "m", "a", "n", "d", "s">>
TextHello == <<"H", "e", "l", "l", "o">>
TextHiHelp == <<"h", "i", ",", " ", "h", "e", "l", "p", " ", "m", "e">>
TextThanks == <<"t", "h", "a", "n", "k", "s">>
TextLeaderboard == <<"b", "u", "r", "r", "i", "t", "o", " ", "l", "e", "a", "d", "e", "r", "b", "o", "a", "r", "d">>

\* the mention entity the platform attaches for a mention of Sam shown as `shown`
MentionOfSam(shown) ==
    [type |-> "mention", text |-> AtOpen \o shown \o AtClose, mentioned |-> [id |-> Sam.id]]

\* the texts of the award rules and of the personal stats query
AwardTexts ==
    {TextGiveMention, TextGiveMentionUpper, TextGiveSamFor, TextGiveSamEmojis,
     TextAmazingTina, TextSamEmojis, TextEmojiForTina, TextGoodEmoji, TextMyBurritos}

\* the texts of the admin rules, and one award for the admin commands to report
AdminTexts ==
    {TextMakeAdmin, TextAdminReport, TextAdminLeaderboard, TextAdminStats,
     TextAdminAdd, TextAdmin, TextGiveSamFor}

\* the texts that ask for a report or a leaderboard
BoardTexts ==
    {TextAdminReport, TextAdminReportWeekly, TextAdminReportMonthly,
     TextAdminReportYearly, TextAdminLeaderboard, TextLeaderboard}

\* texts for every rule of the message handler, some of them matched by the
\* conditions of several rules
RuleTexts ==
    {TextMakeAdmin, TextDebug, TextAdminReport, TextAdminReportHourly,
     TextAdminReportNone, TextAdminStats, TextAdminStatsNone, TextAdminAdd,
     TextAdminAddNone, TextAdminLeaderboard, TextAdmin, TextAdminHelp,
     TextGiveMention, TextGiveSamHello, TextSamEmojis, TextMyBurritos,
     TextLeaderboard, TextHelp, TextCommands, TextHello, TextHiHelp, TextThanks}

Texts == AwardTexts \cup AdminTexts \cup BoardTexts \cup RuleTexts

\* activity.entities for a text: one mention entity per <at>..</at> of the raw text
EntitiesOf(text) ==
    IF atMentionRegex(text) = null THEN <<>> ELSE <<MentionOfSam(atMentionRegex(text))>>

Senders(conversation) == IF conversation = GroupChat THEN {Alice, Sam} ELSE {Good}

MessageActivities(texts) ==
    UNION {{[text |-> text, conversation |-> conversation, from |-> from,
             entities |-> EntitiesOf(text), membersAdded |-> <<>>] :
                text \in texts, from \in Senders(conversation)} :
           conversation \in {GroupChat, PersonalChat}}

\* the message events of the award rules
AwardActivities == MessageActivities(AwardTexts)

\* the message events of the admin rules
AdminActivities == MessageActivities(AdminTexts)

\* Parse, computed once for every text of the inputs
ParseTable == {<<text, Parse(text)>> : text \in Texts}

ParseOf(text) == (CHOOSE entry \in ParseTable : entry[1] = text)[2]

\* an event whose sender is not known (activity.from is undefined)
NoOne == [id |-> undefined, name |-> <<>>]

\* the conversationUpdate events: with and without added members
ConversationUpdateActivities ==
    {[text |-> <<>>, conversation |-> conversation, from |-> from,
      entities |-> <<>>, membersAdded |-> membersAdded] :
        conversation \in {GroupChat, PersonalChat},
        from \in Senders(GroupChat) \cup {NoOne},
        membersAdded \in {<<>>, <<"bot">>}}

----------------------------------------------------------------------------
(* The conversationUpdate handler, after getConversationData               *)

\* the handler without the test of activity.conversation.isGroup
membersAddedAnywhere(conversationData, activity) ==
    IF Len(conversationData.admins) = 0
    THEN Result(IF activity.from.id # undefined
                THEN [conversationData EXCEPT !.admins = Append(@, activity.from.id)]
                ELSE conversationData,
                <<Reply("welcome")>>, "membersAdded")
    ELSE Result(conversationData, <<>>, "membersAdded")

membersAdded(conversationData, activity) ==
    IF Len(conversationData.admins) = 0 /\ activity.conversation.isGroup
    THEN Result(IF activity.from.id # undefined
                THEN [conversationData EXCEPT !.admins = Append(@, activity.from.id)]
                ELSE conversationData,
                <<Reply("welcome")>>, "membersAdded")
    ELSE Result(conversationData, <<>>, "membersAdded")

----------------------------------------------------------------------------
(* The state machine                                                       *)

\* the number of awards the model lets all ledgers hold together
MaxAwards == 3

StartDay == DaysFromCivil(2025, 11, 1)

TotalAwards(store) ==
    LET RECURSIVE Sum(_)
        Sum(S) == IF S = {} THEN 0
                  ELSE LET c == CHOOSE c \in S : TRUE
                       IN  Len(store[c].burritoAwards) + Sum(S \ {c})
    IN  Sum(DOMAIN store)

NoActivity ==
    [text |-> <<>>, conversation |-> [id |-> "", isGroup |-> FALSE, conversationType |-> ""],
     from |-> NoOne, entities |-> <<>>, membersAdded |-> <<>>]

Init ==
    /\ conversationDataStore = [c \in {} |-> NewConversationData(c)]
    /\ now = StartDay
    /\ last = [kind |-> "none", activity |-> NoActivity, rule |-> NoMatch,
               replies |-> <<>>, before |-> NewConversationData("")]
    /\ running = EmptyBag

\* one message, handled from start to end.  The handler changes the object
\* the store holds, so the store has the new data whether or not the branch
\* calls saveConversationData.
Message(activity) ==
    LET conversationId == activity.conversation.id
        store == getConversationData(conversationDataStore, conversationId)
        result == handleMessage(store[conversationId], activity,
                                ParseOf(activity.text), now)
    IN  /\ conversationDataStore' = saveConversationData(store, result.data)
        /\ TotalAwards(conversationDataStore')
              <= (IF TotalAwards(store) > MaxAwards THEN TotalAwards(store) ELSE MaxAwards)
        /\ last' = [kind |-> "message", activity |-> activity, rule |-> result.rule,
                    replies |-> result.replies, before |-> store[conversationId]]
        /\ UNCHANGED <<now, running>>

\* one conversationUpdate event
ConversationUpdate(activity) ==
    LET conversationId == activity.conversation.id
        store == getConversationData(conversationDataStore, conversationId)
        result == membersAdded(store[conversationId], activity)
    IN  /\ Len(activity.membersAdded) > 0
        /\ conversationDataStore' = saveConversationData(store, result.data)
        /\ last' = [kind |-> "membersAdded", activity |-> activity, rule |-> result.rule,
                    replies |-> result.replies, before |-> store[conversationId]]
        /\ UNCHANGED <<now, running>>

OnMessage == \E activity \in AwardActivities : Message(activity)

OnAdminMessage == \E activity \in AdminActivities : Message(activity)

OnConversationUpdate == \E activity \in ConversationUpdateActivities : ConversationUpdate(activity)

\* the award rules: every path of an award, and the personal stats query
Next == OnMessage

Spec == Init /\ [][Next]_vars

\* the admin rules: promotion, the admin commands and the members-added event
NextAdmin == OnAdminMessage \/ OnConversationUpdate

SpecAdmin == Init /\ [][NextAdmin]_vars

----------------------------------------------------------------------------
(* Faults.  A send may fail; the failure is thrown inside the try block of *)
(* the message handler, whose catch clause sends the apology.  Every rule  *)
(* of the handler makes its changes to the conversation data before its    *)
(* first send.                                                             *)

\* the texts of the messages whose handling may fault
FaultTexts ==
    {TextGiveMention, TextGiveSamEmojis, TextSamEmojis, TextMyBurritos, TextMakeAdmin}

FaultActivities == MessageActivities(FaultTexts)

\* the number of sends of the handler that succeed before the one that fails
SendsBeforeFault == {0, 1}

\* the catch clause left out: the sends that succeeded, and nothing after
repliesWithoutCatch(replies, sent) == SubSeq(replies, 1, sent)

\* the replies of a handler whose send after `sent` sends fails: the sends
\* that succeeded, then the apology of the catch clause
repliesUntilFault(replies, sent) ==
    Append(SubSeq(replies, 1, sent), Reply("apology"))

\* one message handled, with the send after `sent` sends failing
MessageFault(activity, sent) ==
    LET conversationId == activity.conversation.id
        store == getConversationData(conversationDataStore, conversationId)
        result == handleMessage(store[conversationId], activity,
                                ParseOf(activity.text), now)
    IN  /\ sent < Len(result.replies)
        /\ conversationDataStore' = saveConversationData(store, result.data)
        /\ TotalAwards(conversationDataStore')
              <= (IF TotalAwards(store) > MaxAwards THEN TotalAwards(store) ELSE MaxAwards)
        /\ last' = [kind |-> "fault", activity |-> activity, rule |-> result.rule,
                    replies |-> repliesUntilFault(result.replies, sent),
                    before |-> store[conversationId]]
        /\ UNCHANGED <<now, running>>

OnFaultlessMessage == \E activity \in FaultActivities : Message(activity)

OnMessageFault ==
    \E activity \in FaultActivities : \E sent \in SendsBeforeFault :
        MessageFault(activity, sent)

\* messages handled with and without a fault, and members-added events
NextFault == OnFaultlessMessage \/ OnMessageFault \/ OnConversationUpdate

SpecFault == Init /\ [][NextFault]_vars

----------------------------------------------------------------------------
(* Every rule of the message handler, in the group chat                   *)

RuleActivities ==
    {activity \in MessageActivities(RuleTexts) : activity.conversation = GroupChat}

OnRuleMessage == \E activity \in RuleActivities : Message(activity)

NextRules == OnRuleMessage

SpecRules == Init /\ [][NextRules]_vars

----------------------------------------------------------------------------
(* Concurrent handlers.  The message handler is an async function: it gives *)
(* up control at "await getConversationData(...)" and at each "await        *)
(* send(...)", and runs without interruption between two awaits.  The      *)
(* handlers of several messages may be waiting at the same time.            *)
(* getConversationData has no await of its own, so it looks up or registers *)
(* the state when it is called, and every handler of a conversation holds   *)
(* the one object the store holds.                                          *)

\* the number of handlers that may be waiting at the same time
MaxHandlers == 2

\* the messages handled concurrently: awards to one recipient by name and by
\* emoji, an award by mention, and the same texts from their own recipient
ConcurrentTexts == {TextGiveMention, TextGiveSamHello, TextSamEmojis}

ConcurrentActivities ==
    {activity \in MessageActivities(ConcurrentTexts) : activity.conversation = GroupChat}

\* the const recipientId of the rule that answered
recipientIdOf(activity, p, rule) ==
    CASE rule = "mention" -> mentionedId(activity, p)
      [] rule = "name" -> demoRecipientId(trim(p.simpleBurritoMatch))
      [] rule = "emoji" -> demoRecipientId(emojiRecipientName(p))
      [] OTHER -> undefined

\* a handler waiting for getConversationData
Waiting(activity) ==
    [activity |-> activity, pc |-> "got", replies |-> <<>>, more |-> FALSE,
     recipientId |-> undefined, recorded |-> 0]

\* the handler after the code between getConversationData and its first
\* send: the reply it sends, whether the updated total is to follow, and
\* (history) the recipient's totalReceived as its own awards left it
AfterFirstSend(handler, result, recipientId) ==
    [handler EXCEPT
        !.pc = "sent",
        !.replies = <<result.replies[1]>>,
        !.more = Len(result.replies) > 1,
        !.recipientId = recipientId,
        !.recorded = IF MapHas(result.data.userStats, recipientId)
                     THEN MapGet(result.data.userStats, recipientId).totalReceived
                     ELSE 0]

\* the updated-total reply stating the total the handler's own awards left
totalAsRecorded(conversationData, handler) ==
    <<[Reply("total") EXCEPT !.name = handler.replies[1].name,
                            !.received = handler.recorded]>>

\* conversationData.userStats.get(recipientId) read after the first send,
\* and the updated-total reply made of it
totalAfterSend(conversationData, handler) ==
    totalReply(conversationData, handler.recipientId, handler.replies[1].name)

\* a message arrives: the handler runs up to "await getConversationData"
Receive(activity) ==
    /\ BagCardinality(running) < MaxHandlers
    /\ conversationDataStore'
          = getConversationData(conversationDataStore, activity.conversation.id)
    /\ running' = running (+) SetToBag({Waiting(activity)})
    /\ UNCHANGED <<now, last>>

\* a handler resumes after getConversationData and runs up to its first
\* "await send": it finds its rule, records the awards in the object of the
\* store, and sends its first reply
Handle(handler) ==
    LET activity == handler.activity
        conversationId == activity.conversation.id
        result == handleMessage(conversationDataStore[conversationId], activity,
                                ParseOf(activity.text), now)
    IN  /\ handler.pc = "got"
        /\ conversationDataStore' = saveConversationData(conversationDataStore, result.data)
        /\ TotalAwards(conversationDataStore') <= MaxAwards
        /\ running' = (running (-) SetToBag({handler}))
                        (+) SetToBag({AfterFirstSend(handler, result,
                                recipientIdOf(activity, ParseOf(activity.text), result.rule))})
        /\ last' = [kind |-> "message", activity |-> activity, rule |-> result.rule,
                    replies |-> <<result.replies[1]>>,
                    before |-> conversationDataStore[conversationId]]
        /\ UNCHANGED now

\* a handler resumes after the send of its confirmation: it reads the
\* recipient's stats and sends the updated total
SendTotal(handler) ==
    /\ handler.pc = "sent"
    /\ handler.more
    /\ running' = (running (-) SetToBag({handler}))
                    (+) SetToBag({[handler EXCEPT
                            !.more = FALSE,
                            !.replies = @ \o totalAfterSend(
                                conversationDataStore[handler.activity.conversation.id],
                                handler)]})
    /\ UNCHANGED <<conversationDataStore, now, last>>

\* a handler resumes after its last send and returns
Return(handler) ==
    /\ handler.pc = "sent"
    /\ ~handler.more
    /\ running' = running (-) SetToBag({handler})
    /\ UNCHANGED <<conversationDataStore, now, last>>

OnReceive == \E activity \in ConcurrentActivities : Receive(activity)

OnHandle == \E handler \in BagToSet(running) : Handle(handler)

OnSendTotal == \E handler \in BagToSet(running) : SendTotal(handler)

OnReturn == \E handler \in BagToSet(running) : Return(handler)

NextConcurrent == OnReceive \/ OnHandle \/ OnSendTotal \/ OnReturn

SpecConcurrent == Init /\ [][NextConcurrent]_vars

----------------------------------------------------------------------------
(* Reports and leaderboards over long ledgers.  The group chat has been in *)
(* use for a while: its members awarded each other burritos by mention on  *)
(* several days, and Alice is its admin.  She then asks for the reports    *)
(* and the leaderboard.                                                    *)

MaxLedger == 12

\* the members of the group chat that awarded each other
BoardMembers == 12

BoardLetters == <<"a", "b", "c", "d", "e", "f", "g", "h", "i", "j", "k", "l", "m", "n">>

\* member i: every member has an identifier of its own, and members 2k-1
\* and 2k go by the same display name
BoardUser(i) ==
    [id |-> <<"b", "-", BoardLetters[i]>>,
     name |-> <<"n", BoardLetters[(i + 1) \div 2]>>]

\* the days the awards were made on: Saturday 2025-11-01, Sunday 2025-11-02,
\* Sunday 2025-12-07 and Thursday 2026-01-01
BoardDays ==
    <<DaysFromCivil(2025, 11, 1), DaysFromCivil(2025, 11, 2),
      DaysFromCivil(2025, 12, 7), DaysFromCivil(2026, 1, 1)>>

\* who awards whom: award i goes to member 1 + (a * i) % m, and comes from
\* member 1 + (i + 1) % BoardMembers, or from the member after that one when
\* that is the recipient: nobody awards a burrito to their own identifier
BoardPatterns == {<<1, 2>>, <<2, 7>>, <<1, BoardMembers>>, <<5, BoardMembers>>}

\* over how many of the days the n awards are spread
BoardSpreads == {1, 3, 4}

\* the index of the day of award i of n
BoardDayIndex(i, n, spread) == 1 + ((i - 1) * spread) \div n

BoardRecipient(i, pattern) == BoardUser(1 + ((pattern[1] * i) % pattern[2]))

BoardGiver(i, pattern) ==
    IF (i + 1) % BoardMembers = (pattern[1] * i) % pattern[2]
    THEN BoardUser(1 + ((i + 2) % BoardMembers))
    ELSE BoardUser(1 + ((i + 1) % BoardMembers))

\* the conversation data after the first k of n awards
RECURSIVE BoardData(_, _, _, _)
BoardData(k, n, pattern, spread) ==
    IF k = 0
    THEN [NewConversationData(GroupChat.id) EXCEPT !.admins = <<Alice.id>>]
    ELSE awardBurrito(BoardData(k - 1, n, pattern, spread),
                      BoardRecipient(k, pattern).id, BoardRecipient(k, pattern).name,
                      BoardGiver(k, pattern).id, BoardGiver(k, pattern).name,
                      undefined, BoardDays[BoardDayIndex(k, n, spread)])

InitBoard ==
    \E n \in 0..MaxLedger, pattern \in BoardPatterns, spread \in BoardSpreads,
       d \in 1..Len(BoardDays) :
        /\ n > 0 => d >= BoardDayIndex(n, n, spread)
        /\ conversationDataStore = [c \in {GroupChat.id} |-> BoardData(n, n, pattern, spread)]
        /\ now = BoardDays[d]
        /\ last = [kind |-> "none", activity |-> NoActivity, rule |-> NoMatch,
                   replies |-> <<>>, before |-> NewConversationData("")]
        /\ running = EmptyBag

\* the admin's requests for reports and leaderboards
BoardActivities ==
    {activity \in MessageActivities(BoardTexts) :
        activity.from = Alice /\ activity.conversation = GroupChat}

OnBoardMessage == \E activity \in BoardActivities : Message(activity)

NextBoard == OnBoardMessage

SpecBoard == InitBoard /\ [][NextBoard]_vars

----------------------------------------------------------------------------
(* What the properties below speak of.                                     *)

\* the number of awards of a ledger that name userId as recipient
ReceivedInLedger(awards, userId) ==
    Cardinality({i \in 1..Len(awards) : awards[i].recipientId = userId})

\* the number of awards of a ledger that name userId as giver
GivenInLedger(awards, userId) ==
    Cardinality({i \in 1..Len(awards) : awards[i].giverId = userId})

\* the user identifiers a conversation's ledger or stats mapping names
UsersNamed(conversationData) ==
    {conversationData.burritoAwards[i].recipientId :
        i \in 1..Len(conversationData.burritoAwards)}
    \cup {conversationData.burritoAwards[i].giverId :
        i \in 1..Len(conversationData.burritoAwards)}
    \cup {conversationData.userStats[i].userId : i \in 1..Len(conversationData.userStats)}

\* the received count the stats mapping holds for userId, 0 without an entry
ReceivedOf(conversationData, userId) ==
    IF MapHas(conversationData.userStats, userId)
    THEN MapGet(conversationData.userStats, userId).totalReceived
    ELSE 0

\* the given count the stats mapping holds for userId, 0 without an entry
GivenOf(conversationData, userId) ==
    IF MapHas(conversationData.userStats, userId)
    THEN MapGet(conversationData.userStats, userId).totalGiven
    ELSE 0

\* the conversation data the last handled message left behind
After == conversationDataStore[last.activity.conversation.id]

\* the awards the last handled message appended to the ledger
Appended ==
    SubSeq(After.burritoAwards, Len(last.before.burritoAwards) + 1,
           Len(After.burritoAwards))

\* the last handled message left ledger, stats mapping and admins as they were
Untouched ==
    /\ After.burritoAwards = last.before.burritoAwards
    /\ After.userStats = last.before.userStats
    /\ After.admins = last.before.admins

----------------------------------------------------------------------------
\* C1: in every reachable state, for every conversation and every user the
\* ledger names as recipient or giver, the user has a stats entry, and every
\* stats entry's totalReceived is the number of ledger awards to that user
\* and its totalGiven the number of ledger awards by that user, also when
\* awardBurrito was called with the recipient being the giver.
StatsMatchLedger ==
    \A c \in DOMAIN conversationDataStore :
        \A u \in UsersNamed(conversationDataStore[c]) :
            /\ Cardinality({i \in 1..Len(conversationDataStore[c].userStats) :
                              conversationDataStore[c].userStats[i].userId = u}) = 1
            /\ MapGet(conversationDataStore[c].userStats, u).totalReceived
                 = ReceivedInLedger(conversationDataStore[c].burritoAwards, u)
            /\ MapGet(conversationDataStore[c].userStats, u).totalGiven
                 = GivenInLedger(conversationDataStore[c].burritoAwards, u)

\* C1 witness: a ledger of several awards, one of them made by awardBurrito
\* with the recipient being the giver, next to awards between two users
StatsMatchLedgerWitness ==
    \E c \in DOMAIN conversationDataStore :
        /\ \E i \in 1..Len(conversationDataStore[c].burritoAwards) :
              conversationDataStore[c].burritoAwards[i].recipientId
                = conversationDataStore[c].burritoAwards[i].giverId
        /\ \E i \in 1..Len(conversationDataStore[c].burritoAwards) :
              conversationDataStore[c].burritoAwards[i].recipientId
                # conversationDataStore[c].burritoAwards[i].giverId
        /\ Len(conversationDataStore[c].userStats) >= 2

----------------------------------------------------------------------------
\* the last event is a message that got past the commands which come before
\* the award rules ("/makeadmin", "/debug", "/admin ...")
ReachedAwardRules ==
    /\ last.kind = "message"
    /\ ParseOf(last.activity.text).userMessage
         \notin {MakeAdminText, MakeMeAdminText, DebugText, InfoText}
    /\ ~startsWith(ParseOf(last.activity.text).userMessage, AdminMarker)

\* the mention rule resolved the mention of the last message to an identifier
MentionResolved ==
    /\ isGroupChatOf(last.activity.conversation)
    /\ mentionedId(last.activity, ParseOf(last.activity.text)) # null

\* the name rule extracted a recipient name from the last message
NameExtracted ==
    /\ ParseOf(last.activity.text).simpleBurritoMatch # null
    /\ ~includes(trim(ParseOf(last.activity.text).simpleBurritoMatch), AtOpen)
    /\ ~includes(trim(ParseOf(last.activity.text).simpleBurritoMatch), <<"@">>)

\* a self-award attempt on the mention-based path
SelfByMention ==
    /\ ReachedAwardRules
    /\ MentionResolved
    /\ mentionedId(last.activity, ParseOf(last.activity.text)) = last.activity.from.id

\* a self-award attempt on the name-based path
SelfByName ==
    /\ ReachedAwardRules
    /\ ~MentionResolved
    /\ NameExtracted
    /\ toLowerCase(trim(ParseOf(last.activity.text).simpleBurritoMatch))
         = toLowerCase(last.activity.from.name)

\* a self-award attempt on the emoji-only path
SelfByEmoji ==
    /\ ReachedAwardRules
    /\ ~MentionResolved
    /\ ~NameExtracted
    /\ ParseOf(last.activity.text).burritoEmojiCount > 0
    /\ toLowerCase(emojiRecipientName(ParseOf(last.activity.text)))
         = toLowerCase(last.activity.from.name)

\* the name the emoji-only path extracted is one it takes for a recipient:
\* longer than one character and not a word of the stoplist
EmojiNameIsCandidate ==
    /\ Len(emojiRecipientName(ParseOf(last.activity.text))) > 1
    /\ toLowerCase(emojiRecipientName(ParseOf(last.activity.text))) \notin commonWords

\* the only reply is the "can't give yourself" text and nothing was recorded
Rejected ==
    /\ Len(last.replies) = 1
    /\ last.replies[1].kind \in {"selfAward", "selfAwardEmoji"}
    /\ Untouched

\* C2 as stated: a self-award attempt on any of the three paths (the resolved
\* mention identifier is the sender's, or the extracted name is the sender's
\* display name up to case) gets the "can't give yourself" reply as its only
\* reply and records nothing.
SelfAwardAlwaysRejected ==
    (SelfByMention \/ SelfByName \/ SelfByEmoji) => Rejected

\* C2 amended: a self-award attempt never records anything; it gets the
\* "can't give yourself" reply as its only reply on the mention-based and
\* name-based paths, and on the emoji-only path when the extracted name is
\* longer than one character and not a stoplist word; otherwise the message
\* is answered by the later rules, with no confirmation or updated total.
SelfAwardRejectedWhenCandidate ==
    /\ (SelfByMention \/ SelfByName \/ SelfByEmoji) => Untouched
    /\ (SelfByMention \/ SelfByName \/ (SelfByEmoji /\ EmojiNameIsCandidate))
          => Rejected
    /\ (SelfByEmoji /\ ~EmojiNameIsCandidate)
          => \A i \in 1..Len(last.replies) :
                last.replies[i].kind \notin {"selfAward", "selfAwardEmoji", "awarded",
                                             "awardedByName", "awardedByEmoji", "total"}

\* C2 witness: a self-award attempt on the emoji-only path, with a name the
\* path takes for a recipient, rejected in a conversation whose ledger
\* already holds awards
SelfAwardRejectedWitness ==
    /\ SelfByEmoji
    /\ EmojiNameIsCandidate
    /\ Rejected
    /\ Len(last.before.burritoAwards) > 0

\* C3: in every reachable state no award of any ledger has the same user as
\* recipient and giver.
NoSelfAwardInLedger ==
    \A c \in DOMAIN conversationDataStore :
        \A i \in 1..Len(conversationDataStore[c].burritoAwards) :
            conversationDataStore[c].burritoAwards[i].recipientId
              # conversationDataStore[c].burritoAwards[i].giverId

----------------------------------------------------------------------------
\* the last event is a message starting with the admin marker, from a sender
\* who was not in the conversation's admin list when it arrived
NonAdminCommand ==
    /\ last.kind = "message"
    /\ startsWith(ParseOf(last.activity.text).userMessage, AdminMarker)
    /\ \A i \in 1..Len(last.before.admins) :
          last.before.admins[i] # last.activity.from.id

\* C4: when a sender who is not an admin of the conversation sends a message
\* starting with "/admin", the only reply is the authorization-denied text,
\* and the conversation's admin list, ledger and stats mapping stay as they
\* were.
AdminDenied ==
    NonAdminCommand =>
        /\ Len(last.replies) = 1
        /\ last.replies[1].kind = "notAdmin"
        /\ Untouched

\* C4 witness: a non-admin asks for the daily report in a conversation that
\* has an admin and a non-empty ledger, and is denied
AdminDeniedWitness ==
    /\ NonAdminCommand
    /\ last.activity.text = TextAdminReport
    /\ Len(last.before.admins) > 0
    /\ Len(last.before.burritoAwards) > 0
    /\ last.replies[1].kind = "notAdmin"

\* how often userId occurs in the admin list
AdminCount(conversationData, userId) ==
    Cardinality({i \in 1..Len(conversationData.admins) :
                    conversationData.admins[i] = userId})

\* no user identifier occurs twice in any conversation's admin list
AdminsDistinct ==
    \A c \in DOMAIN conversationDataStore :
        \A i, j \in 1..Len(conversationDataStore[c].admins) :
            conversationDataStore[c].admins[i] = conversationDataStore[c].admins[j]
                => i = j

\* the sender of the "/makeadmin" or "/makemeadmin" just handled is in the
\* admin list exactly once
PromotedOnce ==
    (/\ last.kind = "message"
     /\ ParseOf(last.activity.text).userMessage \in {MakeAdminText, MakeMeAdminText})
        => AdminCount(After, last.activity.from.id) = 1

\* a step takes no one out of an admin list
AdminsKept ==
    \A c \in DOMAIN conversationDataStore :
        \A i \in 1..Len(conversationDataStore[c].admins) :
            \E j \in 1..Len(conversationDataStore'[c].admins) :
                conversationDataStore'[c].admins[j] = conversationDataStore[c].admins[i]

\* C5: after any sequence of "/makeadmin" messages and members-added events,
\* every user identifier occurs at most once in a conversation's admin list,
\* and a user who sent "/makeadmin" occurs exactly once from then on.
AdminListHoldsEachOnce ==
    /\ [](AdminsDistinct /\ PromotedOnce)
    /\ [][AdminsKept]_vars

\* C5 witness: "/makeadmin" from a sender who was an admin already, in a
\* conversation with two admins
AdminListHoldsEachOnceWitness ==
    /\ last.kind = "message"
    /\ ParseOf(last.activity.text).userMessage = MakeAdminText
    /\ AdminCount(last.before, last.activity.from.id) = 1
    /\ Len(After.admins) = 2

----------------------------------------------------------------------------
\* the last handled message recorded awards
AwardRecorded ==
    /\ last.kind = "message"
    /\ Len(After.burritoAwards) > Len(last.before.burritoAwards)

\* the next event is a "my burritos" query in the conversation of the last
\* event
StatsQueryNext ==
    /\ last'.kind = "message"
    /\ last'.rule = "stats"
    /\ last'.activity.conversation = last.activity.conversation

\* the query's reply reports the recipient's earlier count plus what the
\* award before it added
ReportsIncrement ==
    /\ Len(last'.replies) = 1
    /\ last'.replies[1].kind = "myBurritos"
    /\ last'.replies[1].received
         = ReceivedOf(last.before, Appended[1].recipientId) + Len(Appended)

\* the step from an award to the "my burritos" query of the person awarded,
\* who is known by the recorded identifier or by the recorded name
RoundTripOfPerson ==
    (/\ AwardRecorded
     /\ StatsQueryNext
     /\ \/ last'.activity.from.id = Appended[1].recipientId
        \/ toLowerCase(last'.activity.from.name) = toLowerCase(Appended[1].recipientName))
        => ReportsIncrement

\* the step from an award to the "my burritos" query of the sender whose
\* identifier the award recorded as its recipient
RoundTripOfId ==
    (/\ AwardRecorded
     /\ StatsQueryNext
     /\ last'.activity.from.id = Appended[1].recipientId)
        => ReportsIncrement

\* C6 as stated: on every award path, after an award of k burritos to a
\* recipient, a "my burritos" query sent next by that recipient in the same
\* conversation reports the recipient's earlier received count plus k.
RoundTripForRecipient == [][RoundTripOfPerson]_vars

\* C6 amended: after an award of k burritos, a "my burritos" query sent next
\* in the same conversation by the sender whose identifier is the award's
\* recorded recipientId reports that identifier's earlier received count
\* plus k.
RoundTripForRecipientId == [][RoundTripOfId]_vars

\* C6 witness: a "my burritos" query answered with a received count of two or
\* more to the sender whose identifier the newest award of the ledger names
\* as recipient
RoundTripWitness ==
    /\ last.kind = "message"
    /\ last.rule = "stats"
    /\ last.replies[1].kind = "myBurritos"
    /\ last.replies[1].received >= 2
    /\ Len(After.burritoAwards) > 0
    /\ After.burritoAwards[Len(After.burritoAwards)].recipientId = last.activity.from.id

\* C7: in a group conversation, a message "give|award|grant <mention> [a]
\* burrito" whose mention token is the text of a mention entity resolving to
\* someone other than the sender records exactly one award, to the
\* identifier of that entity, whatever the letter case of the mention.
MentionAwardRecorded ==
    \A i \in 1..(IF last.kind = "message" THEN Len(last.activity.entities) ELSE 0) :
        (/\ ReachedAwardRules
         /\ isGroupChatOf(last.activity.conversation)
         /\ ParseOf(last.activity.text).burritoAwardMatch # null
         /\ last.activity.entities[i].type = "mention"
         /\ includes(last.activity.text, last.activity.entities[i].text)
         /\ toLowerCase(last.activity.entities[i].text)
              = AtOpen \o ParseOf(last.activity.text).burritoAwardMatch \o AtClose
         /\ last.activity.entities[i].mentioned.id # last.activity.from.id)
            => /\ Len(Appended) = 1
               /\ Appended[1].recipientId = last.activity.entities[i].mentioned.id

\* the last message was answered by the confirmation of the name-based rule
NameAwardDone ==
    /\ last.kind = "message"
    /\ Len(last.replies) > 0
    /\ last.replies[1].kind = "awardedByName"

\* the last message was answered by the confirmation of the emoji-only rule
EmojiAwardDone ==
    /\ last.kind = "message"
    /\ Len(last.replies) > 0
    /\ last.replies[1].kind = "awardedByEmoji"

\* what the last message is to add: the number of emoji glyphs in its raw
\* text, floored at 1 on the name-based path
QuantityDue ==
    IF NameAwardDone
    THEN Max({1, emojiCount(last.activity.text)})
    ELSE emojiCount(last.activity.text)

\* the last message appended QuantityDue awards with one recipient and the
\* sender as giver, and moved exactly their two counters, by QuantityDue
QuantityRecorded ==
    /\ SubSeq(After.burritoAwards, 1, Len(last.before.burritoAwards))
         = last.before.burritoAwards
    /\ Len(Appended) = QuantityDue
    /\ \A i \in 1..Len(Appended) :
          /\ Appended[i].recipientId = Appended[1].recipientId
          /\ Appended[i].giverId = last.activity.from.id
    /\ \A u \in UsersNamed(After) \cup UsersNamed(last.before) :
          /\ ReceivedOf(After, u) = ReceivedOf(last.before, u)
                + (IF u = Appended[1].recipientId THEN QuantityDue ELSE 0)
          /\ GivenOf(After, u) = GivenOf(last.before, u)
                + (IF u = last.activity.from.id THEN QuantityDue ELSE 0)

\* C8: a successful name-based award appends exactly max(1, n) awards and a
\* successful emoji-only award exactly n, n being the number of emoji glyphs
\* in the raw text; all have the same recipient and giver, the recipient's
\* totalReceived and the giver's totalGiven grow by that quantity, and no
\* other counter changes.
AwardQuantities ==
    (NameAwardDone \/ EmojiAwardDone) => QuantityRecorded

\* C8 witness: a name-based award with two emoji glyphs, added to a ledger
\* that held an award already
AwardQuantitiesWitness ==
    /\ NameAwardDone
    /\ emojiCount(last.activity.text) = 2
    /\ Len(last.before.burritoAwards) > 0
    /\ Len(Appended) = 2

\* the recipient name as the sender typed it in TextGiveSamFor
TypedSam == <<"S", "a", "m">>

\* the reason as the sender typed it in TextGiveSamFor
TypedReason == <<"g", "r", "e", "a", "t", " ", "d", "e", "b", "u", "g", "g", "i", "n", "g">>

\* C9: "give Sam a burrito for great debugging", sent in a personal chat by a
\* sender not called Sam, records exactly one award with the reason "great
\* debugging", and the replies carry the name as typed, "Sam", and the
\* recipient's new total.
GiveSamForRecorded ==
    (/\ last.kind = "message"
     /\ last.activity.text = TextGiveSamFor
     /\ ~isGroupChatOf(last.activity.conversation)
     /\ toLowerCase(last.activity.from.name) # toLowerCase(TypedSam))
        => /\ Len(Appended) = 1
           /\ Appended[1].reason = TypedReason
           /\ \E i \in 1..Len(last.replies) : last.replies[i].name = TypedSam
           /\ \E i \in 1..Len(last.replies) :
                 /\ last.replies[i].kind = "total"
                 /\ last.replies[i].received
                      = ReceivedOf(last.before, Appended[1].recipientId) + 1

\* C10: "Amazing work Tina! " followed by two emoji glyphs records two
\* awards to the recipient named Tina, with the reason "emoji award".
AmazingTinaRecorded ==
    (/\ last.kind = "message"
     /\ last.activity.text = TextAmazingTina)
        => /\ Len(Appended) = 2
           /\ \A i \in 1..Len(Appended) :
                 /\ toLowerCase(Appended[i].recipientName) = <<"t", "i", "n", "a">>
                 /\ Appended[i].reason = EmojiAwardReason

----------------------------------------------------------------------------
\* the last message asked for a report of a period and its sender was an
\* admin when it arrived
ReportAsked ==
    /\ last.kind = "message"
    /\ startsWith(ParseOf(last.activity.text).userMessage, AdminMarker)
    /\ \E i \in 1..Len(last.before.admins) :
          last.before.admins[i] = last.activity.from.id
    /\ splitPart(ParseOf(last.activity.text).userMessage, 1) = ReportWord
    /\ PeriodNamed(splitPart(ParseOf(last.activity.text).userMessage, 2)) \in Periods

\* the period the last message named
PeriodAsked == PeriodNamed(splitPart(ParseOf(last.activity.text).userMessage, 2))

\* the positions of the ledger's awards whose timestamp has the period key
\* of the reference date
InPeriod(awards, period, date) ==
    {i \in 1..Len(awards) :
        getDateKey(awards[i].timestamp, period) = getDateKey(date, period)}

\* C11: generateReport returns the "no burritos were awarded" message exactly
\* when no award of the ledger has the period key of the reference date, and
\* otherwise reports as total the number of awards with that key; it leaves
\* ledger, stats and admins as they were.
ReportCountsPeriodAwards ==
    ReportAsked =>
        /\ Len(last.replies) = 1
        /\ last.replies[1].kind \in {"report", "reportEmpty"}
        /\ last.replies[1].kind = "reportEmpty"
              <=> InPeriod(last.before.burritoAwards, PeriodAsked, now) = {}
        /\ last.replies[1].kind = "report"
              => last.replies[1].count
                   = Cardinality(InPeriod(last.before.burritoAwards, PeriodAsked, now))
        /\ Untouched

\* the drawn ledgers hold no award from an identifier to itself
NoSelfIdInLedger ==
    \A c \in DOMAIN conversationDataStore :
        \A i \in 1..Len(conversationDataStore[c].burritoAwards) :
            conversationDataStore[c].burritoAwards[i].recipientId
                # conversationDataStore[c].burritoAwards[i].giverId

\* C11 witness: a weekly report that counts some awards of the ledger and
\* leaves others out
ReportCountsPeriodAwardsWitness ==
    /\ ReportAsked
    /\ PeriodAsked = "weekly"
    /\ last.replies[1].kind = "report"
    /\ last.replies[1].count >= 2
    /\ last.replies[1].count < Len(last.before.burritoAwards)

----------------------------------------------------------------------------
\* the last message asked for the leaderboard: by the leaderboard query, or
\* by the admin command of a sender who was an admin when it arrived
LeaderboardAsked ==
    /\ last.kind = "message"
    /\ \/ last.rule = "leaderboard"
       \/ /\ last.rule = "admin"
          /\ \E i \in 1..Len(last.before.admins) :
                last.before.admins[i] = last.activity.from.id
          /\ splitPart(ParseOf(last.activity.text).userMessage, 1) = LeaderboardWord

\* the number of stats entries that go before entry i on a leaderboard: those
\* that received more, and those that received as much and were inserted
\* into the stats mapping earlier
EntriesAbove(userStats, i) ==
    Cardinality({k \in 1..Len(userStats) :
        \/ userStats[k].totalReceived > userStats[i].totalReceived
        \/ userStats[k].totalReceived = userStats[i].totalReceived /\ k < i})

\* the listing answers the stats mapping: each entry with fewer than
\* LeaderboardSize entries above it is listed at the place after them
ListsTopEntries(body, userStats) ==
    /\ Len(body) = Cardinality({i \in 1..Len(userStats) :
                        EntriesAbove(userStats, i) < LeaderboardSize})
    /\ \A i \in 1..Len(userStats) :
          EntriesAbove(userStats, i) < LeaderboardSize
              => body[EntriesAbove(userStats, i) + 1]
                    = <<userStats[i].userName, userStats[i].totalReceived>>

\* no listed entry received more than an entry above it, and no omitted
\* entry received more than a listed one
ListingDescends(body, userStats) ==
    /\ \A j, k \in 1..Len(body) : j < k => body[j][2] >= body[k][2]
    /\ \A i \in 1..Len(userStats) :
          EntriesAbove(userStats, i) >= LeaderboardSize
              => \A j \in 1..Len(body) : body[j][2] >= userStats[i].totalReceived

\* C12: the leaderboard lists at most 10 stats entries by descending
\* totalReceived, entries that received as much in the order of their
\* insertion into the stats mapping, and no omitted entry received more than
\* a listed one; the "no burritos have been awarded yet" message is sent
\* exactly when the stats mapping is empty.
LeaderboardRanksTopTen ==
    LeaderboardAsked =>
        /\ Len(last.replies) = 1
        /\ last.replies[1].kind \in {"leaderboard", "leaderboardEmpty"}
        /\ last.replies[1].kind = "leaderboardEmpty" <=> last.before.userStats = <<>>
        /\ last.replies[1].kind = "leaderboard" =>
              /\ Len(last.replies[1].body) <= 10
              /\ ListsTopEntries(last.replies[1].body, last.before.userStats)
              /\ ListingDescends(last.replies[1].body, last.before.userStats)

\* C12 witness: a leaderboard of a stats mapping of more than 10 entries,
\* whose first two entries received as much, more than the third, and which
\* does not list the entries in the order of their insertion
LeaderboardRanksTopTenWitness ==
    /\ LeaderboardAsked
    /\ Len(last.before.userStats) > 10
    /\ last.replies[1].kind = "leaderboard"
    /\ Len(last.replies[1].body) = 10
    /\ last.replies[1].body[1][2] = last.replies[1].body[2][2]
    /\ last.replies[1].body[2][2] > last.replies[1].body[3][2]
    /\ \E j \in 1..10 :
          last.replies[1].body[j][1] # last.before.userStats[j].userName

----------------------------------------------------------------------------
\* the last event handled was a members-added event
MembersAddedHandled == last.kind = "membersAdded"

\* the members-added event left ledger and stats mapping as they were
LedgerAndStatsKept ==
    /\ After.burritoAwards = last.before.burritoAwards
    /\ After.userStats = last.before.userStats

\* C13 as stated: a members-added event for a conversation without admins,
\* group or not, with a known actor makes that actor the first admin; with
\* admins already, it leaves the admin list as it was; ledger and stats are
\* unchanged.
MembersAddedGivesFirstAdmin ==
    MembersAddedHandled =>
        /\ (last.before.admins = <<>> /\ last.activity.from.id # undefined)
              => After.admins = <<last.activity.from.id>>
        /\ last.before.admins # <<>> => After.admins = last.before.admins
        /\ LedgerAndStatsKept

\* C13, amended: a members-added event for a conversation flagged as a group
\* (activity.conversation.isGroup) without admins and with a known actor
\* makes that actor the first admin; for a conversation not flagged as a
\* group, with admins already, or with an unknown actor, it leaves the admin
\* list as it was; ledger and stats are unchanged.
MembersAddedGivesFirstGroupAdmin ==
    MembersAddedHandled =>
        /\ IF /\ last.before.admins = <<>>
              /\ last.activity.from.id # undefined
              /\ last.activity.conversation.isGroup
           THEN After.admins = <<last.activity.from.id>>
           ELSE After.admins = last.before.admins
        /\ LedgerAndStatsKept

\* C13 witness: members added by a known actor to the group chat, which has
\* no admins and a ledger that is not empty
MembersAddedWitness ==
    /\ MembersAddedHandled
    /\ last.activity.conversation.isGroup
    /\ last.before.admins = <<>>
    /\ last.activity.from.id # undefined
    /\ last.before.burritoAwards # <<>>
    /\ After.admins = <<last.activity.from.id>>

----------------------------------------------------------------------------
\* a step leaves every conversation's ledger as it was or extends it at the
\* end
LedgerExtended ==
    \A c \in DOMAIN conversationDataStore :
        /\ c \in DOMAIN conversationDataStore'
        /\ Len(conversationDataStore'[c].burritoAwards)
              >= Len(conversationDataStore[c].burritoAwards)
        /\ SubSeq(conversationDataStore'[c].burritoAwards, 1,
                  Len(conversationDataStore[c].burritoAwards))
              = conversationDataStore[c].burritoAwards

\* a step takes no entry out of a stats mapping and lowers neither of its
\* counters
CountersKept ==
    \A c \in DOMAIN conversationDataStore :
        \A i \in 1..Len(conversationDataStore[c].userStats) :
            LET userId == conversationDataStore[c].userStats[i].userId
            IN  /\ MapHas(conversationDataStore'[c].userStats, userId)
                /\ ReceivedOf(conversationDataStore'[c], userId)
                      >= ReceivedOf(conversationDataStore[c], userId)
                /\ GivenOf(conversationDataStore'[c], userId)
                      >= GivenOf(conversationDataStore[c], userId)

\* every award carries the identifier of the conversation whose ledger
\* holds it
AwardsOwnConversation ==
    \A c \in DOMAIN conversationDataStore :
        /\ conversationDataStore[c].conversationId = c
        /\ \A i \in 1..Len(conversationDataStore[c].burritoAwards) :
              conversationDataStore[c].burritoAwards[i].conversationId = c

\* C14: each conversation's ledger is append-only: every step leaves it as
\* it was or extends it at the end, no award is removed, reordered or
\* modified, every award's conversationId is the identifier of the
\* conversation whose ledger holds it, and no user's totalReceived or
\* totalGiven ever decreases.
LedgerAppendOnly ==
    /\ []AwardsOwnConversation
    /\ [][LedgerExtended /\ CountersKept]_vars

\* C14 witness: a message appended an award to a ledger that held one
\* already, while the other conversation's ledger holds an award too
LedgerAppendOnlyWitness ==
    /\ last.kind = "message"
    /\ Len(last.before.burritoAwards) = 1
    /\ Len(Appended) = 1
    /\ \E c \in DOMAIN conversationDataStore :
          /\ c # last.activity.conversation.id
          /\ conversationDataStore[c].burritoAwards # <<>>

----------------------------------------------------------------------------
\* the handling of the last message faulted
FaultHandled == last.kind = "fault"

\* ledger and stats mapping of a conversation agree: every user the ledger
\* names has one stats entry, and every entry counts the awards of the
\* ledger to and by its user
LedgerAndStatsAgree(conversationData) ==
    \A u \in UsersNamed(conversationData) :
        /\ Cardinality({i \in 1..Len(conversationData.userStats) :
                          conversationData.userStats[i].userId = u}) = 1
        /\ ReceivedOf(conversationData, u)
              = ReceivedInLedger(conversationData.burritoAwards, u)
        /\ GivenOf(conversationData, u)
              = GivenInLedger(conversationData.burritoAwards, u)

\* after a fault the apology is the last reply and no earlier one, and
\* ledger and stats agree in every conversation
FaultAnswered ==
    FaultHandled =>
        /\ last.replies # <<>>
        /\ \A i \in 1..Len(last.replies) :
              last.replies[i].kind = "apology" <=> i = Len(last.replies)
        /\ \A c \in DOMAIN conversationDataStore :
              LedgerAndStatsAgree(conversationDataStore[c])

\* the message that follows a fault is handled as the handler prescribes for
\* the conversation data it finds: its replies and the data it leaves are
\* those of handleMessage, and no apology is sent
HandledNormallyAfterFault ==
    (FaultHandled /\ last'.kind = "message") =>
        LET result == handleMessage(last'.before, last'.activity,
                                    ParseOf(last'.activity.text), now)
            conversationId == last'.activity.conversation.id
        IN  /\ last'.before
                 = getConversationData(conversationDataStore, conversationId)[conversationId]
            /\ last'.replies = result.replies
            /\ last'.replies # <<>>
            /\ \A i \in 1..Len(last'.replies) : last'.replies[i].kind # "apology"
            /\ conversationDataStore'[conversationId] = result.data

\* C15: a fault while a message is handled (a failing send) is caught at
\* the top level and the apology is sent; in the state it leaves, ledger and
\* stats agree (no award without its counter updates, no counter update
\* without its award); and the messages that follow, for the same or
\* another conversation, are handled normally.
FaultCaughtAndRecovered ==
    /\ []FaultAnswered
    /\ [][HandledNormallyAfterFault]_vars

\* C15 witness: the send of the confirmation of a two-burrito award failed,
\* after the awards were recorded in a ledger that held an award already
FaultCaughtAndRecoveredWitness ==
    /\ FaultHandled
    /\ Len(last.replies) = 1
    /\ Len(last.before.burritoAwards) = 1
    /\ Len(Appended) = 2

----------------------------------------------------------------------------
\* the conversation the event handled by a step is for
HandledConversation == last'.activity.conversation.id

\* a step leaves every conversation but the one of its event as it was
OthersKept ==
    \A c \in DOMAIN conversationDataStore :
        c # HandledConversation
            => /\ c \in DOMAIN conversationDataStore'
               /\ conversationDataStore'[c] = conversationDataStore[c]

\* the state a step's handler gets for its conversation is the stored one,
\* and a fresh one (no admins, empty ledger, empty stats) when the store
\* holds none for the identifier
StoredStateUsed ==
    last'.before =
        IF HandledConversation \in DOMAIN conversationDataStore
        THEN conversationDataStore[HandledConversation]
        ELSE [conversationId |-> HandledConversation, admins |-> <<>>,
              burritoAwards |-> <<>>, userStats |-> <<>>]

\* the state a step's event is handled on stays registered under its
\* identifier
StateRegistered ==
    /\ HandledConversation \in DOMAIN conversationDataStore'
    /\ conversationDataStore'[HandledConversation].conversationId = HandledConversation

\* C16: conversations are isolated: handling a message, a message that
\* faults or a members-added event for one conversation leaves admins,
\* ledger and stats of every other conversation as they were, and
\* getConversationData returns the stored state of the identifier, creating a
\* fresh empty one only on the first access.
ConversationsIsolated ==
    [][OthersKept /\ StoredStateUsed /\ StateRegistered]_vars

\* C16 witness: a message that faulted changed the group chat's data while
\* the personal chat holds awards and the group chat held an admin
ConversationsIsolatedWitness ==
    /\ FaultHandled
    /\ last.activity.conversation = GroupChat
    /\ last.before.admins # <<>>
    /\ After # last.before
    /\ PersonalChat.id \in DOMAIN conversationDataStore
    /\ conversationDataStore[PersonalChat.id].burritoAwards # <<>>

----------------------------------------------------------------------------
\* the replies of the outcomes that are neither an award nor a promotion
\* nor the rejection of a self-award: debug, the admin commands and their
\* denial, the stats and leaderboard queries, help, greeting and fallback
QueryReplies ==
    {"debugInfo", "notAdmin", "adminAddUsage", "adminAddNeedsSetup",
     "reportUsage", "report", "reportEmpty", "statsUsage", "userStats",
     "noUserStats", "leaderboard", "leaderboardEmpty", "adminHelp",
     "myBurritos", "noBurritos", "help", "generalHelp", "greeting", "default"}

\* the last message was answered by one of those outcomes
QueryAnswered ==
    /\ last.kind = "message"
    /\ \E i \in 1..Len(last.replies) : last.replies[i].kind \in QueryReplies

\* C17: a debug/info request, an admin report, stats, leaderboard, add or
\* unrecognized subcommand (with valid, missing or invalid arguments), a
\* personal stats query, a leaderboard query, help, greeting and fallback
\* each leave the conversation's admins, ledger and stats mapping exactly as
\* they were before the message.
QueriesReadOnly == QueryAnswered => Untouched

\* C17 witness: '/admin stats' with a mention answered with the stats of
\* the mentioned user, in a conversation with a ledger and two admins
QueriesReadOnlyWitness ==
    /\ QueryAnswered
    /\ last.replies[1].kind = "userStats"
    /\ last.replies[1].received > 0
    /\ Len(last.before.admins) = 2
    /\ last.before.burritoAwards # <<>>

----------------------------------------------------------------------------
\* the rules of the message handler in the order they are tried; the help
\* rule has two forms, the second for the texts "help" and "commands" alone
RuleOrder ==
    <<"makeadmin", "debug", "admin", "mention", "name", "emoji", "stats",
      "leaderboard", "help", "generalHelp", "greeting", "fallback">>

\* the condition of a rule matches the last message in full
RuleMatches(rule) ==
    CASE rule = "makeadmin" ->
            ParseOf(last.activity.text).userMessage \in {MakeAdminText, MakeMeAdminText}
      [] rule = "debug" ->
            ParseOf(last.activity.text).userMessage \in {DebugText, InfoText}
      [] rule = "admin" ->
            startsWith(ParseOf(last.activity.text).userMessage, AdminMarker)
      [] rule = "mention" -> MentionResolved
      [] rule = "name" -> NameExtracted
      [] rule = "emoji" ->
            ParseOf(last.activity.text).burritoEmojiCount > 0 /\ EmojiNameIsCandidate
      [] rule = "stats" -> ParseOf(last.activity.text).asksStats
      [] rule = "leaderboard" -> ParseOf(last.activity.text).asksLeaderboard
      [] rule = "help" -> ParseOf(last.activity.text).asksHelp
      [] rule = "generalHelp" ->
            ParseOf(last.activity.text).userMessage \in {HelpText, CommandsText}
      [] rule = "greeting" -> ParseOf(last.activity.text).greets
      [] OTHER -> TRUE

\* the places in the order of the rules whose condition matches
MatchingRules == {i \in 1..Len(RuleOrder) : RuleMatches(RuleOrder[i])}

\* the replies each rule sends
RepliesOfRule(rule) ==
    CASE rule = "makeadmin" -> {"adminSuccess", "alreadyAdmin"}
      [] rule = "debug" -> {"debugInfo"}
      [] rule = "admin" ->
            {"notAdmin", "adminAddUsage", "adminAddNeedsSetup", "reportUsage",
             "report", "reportEmpty", "statsUsage", "userStats", "noUserStats",
             "leaderboard", "leaderboardEmpty", "adminHelp"}
      [] rule = "mention" -> {"selfAward", "awarded", "total"}
      [] rule = "name" -> {"selfAward", "awardedByName", "total"}
      [] rule = "emoji" -> {"selfAwardEmoji", "awardedByEmoji", "total"}
      [] rule = "stats" -> {"myBurritos", "noBurritos"}
      [] rule = "leaderboard" -> {"leaderboard", "leaderboardEmpty"}
      [] rule = "help" -> {"help"}
      [] rule = "generalHelp" -> {"generalHelp"}
      [] rule = "greeting" -> {"greeting"}
      [] OTHER -> {"default"}

\* C18: every message is handled by exactly one rule of the precedence order
\* (self-promotion, debug, admin command, mention award, name award, emoji
\* award, stats query, leaderboard query, help, greeting, fallback): the
\* first whose condition fully matches sends the replies, no later rule
\* replies or changes the state for the same message, and at least one reply
\* is sent.
FirstMatchingRuleAnswers ==
    last.kind = "message" =>
        LET first == RuleOrder[Min(MatchingRules)]
        IN  /\ last.rule = first
            /\ Len(last.replies) >= 1
            /\ \A i \in 1..Len(last.replies) :
                  last.replies[i].kind \in RepliesOfRule(first)
            /\ first # "makeadmin" => After.admins = last.before.admins
            /\ first \notin {"mention", "name", "emoji"}
                  => /\ After.burritoAwards = last.before.burritoAwards
                     /\ After.userStats = last.before.userStats

\* C18 witness: "hi, help me", which the help rule and the greeting rule
\* match, answered after awards were made
FirstMatchingRuleAnswersWitness ==
    /\ last.kind = "message"
    /\ {9, 11, 12} \subseteq MatchingRules
    /\ Min(MatchingRules) = 9
    /\ last.before.burritoAwards # <<>>

----------------------------------------------------------------------------
\* the last event added its own sender, who was no admin, at the end of the
\* admin list
SenderAdded ==
    /\ \A i \in 1..Len(last.before.admins) :
          last.before.admins[i] # last.activity.from.id
    /\ After.admins = Append(last.before.admins, last.activity.from.id)

\* the last event is one that may add an admin: a "/makeadmin" or
\* "/makemeadmin" message, or a members-added event for a conversation
\* without admins
MayAddAdmin ==
    \/ /\ last.kind = "message"
       /\ ParseOf(last.activity.text).userMessage \in {MakeAdminText, MakeMeAdminText}
    \/ /\ last.kind = "membersAdded"
       /\ last.before.admins = <<>>

\* the last message was '/admin add' with a mention
AdminAddAsked ==
    /\ last.kind = "message"
    /\ startsWith(ParseOf(last.activity.text).userMessage, AdminMarker)
    /\ splitPart(ParseOf(last.activity.text).userMessage, 1) = AddWord
    /\ atMentionRegex(ParseOf(last.activity.text).userMessage) # null

\* an event leaves the admin list as it was or adds its own sender, and adds
\* only if it is one that may; '/admin add' with a mention leaves it as
\* it was, and an admin gets the setup-required notice as the only reply
AdminsChangeBySenderOnly ==
    /\ last.kind \in {"message", "membersAdded"}
          => \/ After.admins = last.before.admins
             \/ SenderAdded /\ MayAddAdmin
    /\ AdminAddAsked
          => /\ After.admins = last.before.admins
             /\ Len(last.replies) = 1
             /\ last.replies[1].kind
                  = IF \E i \in 1..Len(last.before.admins) :
                          last.before.admins[i] = last.activity.from.id
                    THEN "adminAddNeedsSetup" ELSE "notAdmin"

\* a step keeps every admin list as the beginning of the list it leaves
AdminsPrefixKept ==
    \A c \in DOMAIN conversationDataStore :
        /\ c \in DOMAIN conversationDataStore'
        /\ Len(conversationDataStore'[c].admins) >= Len(conversationDataStore[c].admins)
        /\ SubSeq(conversationDataStore'[c].admins, 1, Len(conversationDataStore[c].admins))
              = conversationDataStore[c].admins

\* C19: the admin set changes only by adding the sender of a "/makeadmin" or
\* "/makemeadmin" message or the actor of a members-added event on a
\* conversation without admins; no message adds a user other than its
\* sender, '/admin add <mention>' leaves the admin set as it was and returns
\* the setup-required notice only, and no event removes an admin.
AdminsGrowBySenderOnly ==
    /\ []AdminsChangeBySenderOnly
    /\ [][AdminsPrefixKept]_vars

\* C19 witness: '/admin add' with the mention of Sam, sent by an admin and
\* answered by the notice, with Sam, who has stats, being no admin
AdminsGrowBySenderOnlyWitness ==
    /\ AdminAddAsked
    /\ last.replies[1].kind = "adminAddNeedsSetup"
    /\ last.before.admins = <<Alice.id>>
    /\ After.admins = <<Alice.id>>
    /\ last.before.userStats # <<>>

----------------------------------------------------------------------------
\* the awards of the period the last message asked a report for
AwardsOfPeriodAsked ==
    [i \in 1..Cardinality(InPeriod(last.before.burritoAwards, PeriodAsked, now)) |->
        last.before.burritoAwards[
            CHOOSE k \in InPeriod(last.before.burritoAwards, PeriodAsked, now) :
                Cardinality({j \in InPeriod(last.before.burritoAwards, PeriodAsked, now) :
                                j < k}) = i - 1]]

\* the number of entries of a sequence of names that are `name`
TimesNamed(names, name) == Cardinality({i \in 1..Len(names) : names[i] = name})

\* a list of <<name, count>> entries is the top of the tally of the names:
\* at most ReportTopSize entries, one per name, as many as there are names
\* up to that size, each with the number of times its name occurs, in
\* non-increasing order of count, and no name left out occurs more often
\* than a listed one
TopOfTally(list, names) ==
    /\ Len(list) <= 5
    /\ Len(list) = Min({5, Cardinality({names[i] : i \in 1..Len(names)})})
    /\ \A j, k \in 1..Len(list) : list[j][1] = list[k][1] => j = k
    /\ \A j \in 1..Len(list) :
          /\ list[j][2] > 0
          /\ list[j][2] = TimesNamed(names, list[j][1])
    /\ \A j, k \in 1..Len(list) : j < k => list[j][2] >= list[k][2]
    /\ \A i \in 1..Len(names) :
          (\A j \in 1..Len(list) : list[j][1] # names[i])
              => \A j \in 1..Len(list) : list[j][2] >= TimesNamed(names, names[i])

\* the recipient names and the giver names of a sequence of awards
RecipientNames(awards) == [i \in 1..Len(awards) |-> awards[i].recipientName]

GiverNames(awards) == [i \in 1..Len(awards) |-> awards[i].giverName]

\* C20: in a non-empty period report, recipients and givers are tallied by
\* display name: each listed count is the number of period awards with that
\* recipientName, or giverName, identifiers sharing a display name being
\* merged; each list has at most 5 entries in non-increasing order of count,
\* and no omitted name has a larger count than a listed one.
ReportTalliesByName ==
    (ReportAsked /\ last.replies[1].kind = "report") =>
        /\ TopOfTally(last.replies[1].body[2], RecipientNames(AwardsOfPeriodAsked))
        /\ TopOfTally(last.replies[1].body[3], GiverNames(AwardsOfPeriodAsked))

\* C20 witness: a report that leaves awards of the ledger out, lists 5 of
\* more than 5 recipient names, and lists a recipient name with the awards
\* of two identifiers
ReportTalliesByNameWitness ==
    /\ ReportAsked
    /\ last.replies[1].kind = "report"
    /\ last.replies[1].count < Len(last.before.burritoAwards)
    /\ Len(last.replies[1].body[2]) = 5
    /\ Cardinality({AwardsOfPeriodAsked[i].recipientName :
                       i \in 1..Len(AwardsOfPeriodAsked)}) > 5
    /\ \E i, k \in 1..Len(AwardsOfPeriodAsked) :
          /\ AwardsOfPeriodAsked[i].recipientName = AwardsOfPeriodAsked[k].recipientName
          /\ AwardsOfPeriodAsked[i].recipientId # AwardsOfPeriodAsked[k].recipientId
          /\ AwardsOfPeriodAsked[i].recipientName = last.replies[1].body[2][1][1]

----------------------------------------------------------------------------
\* the Sunday on or before a date
SundayBefore(date) == date - getDay(date)

\* the positions of the ledger's awards made in the Sunday-to-Saturday week
\* of the reference date
InWeekOf(awards, date) ==
    {i \in 1..Len(awards) : SundayBefore(awards[i].timestamp) = SundayBefore(date)}

\* any two awards of a ledger with one weekly period key were made in one
\* Sunday-to-Saturday week
WeeklyKeyNamesOneWeek ==
    \A c \in DOMAIN conversationDataStore :
        \A i, j \in 1..Len(conversationDataStore[c].burritoAwards) :
            getDateKey(conversationDataStore[c].burritoAwards[i].timestamp, "weekly")
                  = getDateKey(conversationDataStore[c].burritoAwards[j].timestamp, "weekly")
               => SundayBefore(conversationDataStore[c].burritoAwards[i].timestamp)
                     = SundayBefore(conversationDataStore[c].burritoAwards[j].timestamp)

\* a weekly report counts the awards made in the week of the current date,
\* and is the empty message when there are none
WeeklyReportCountsItsWeek ==
    (ReportAsked /\ PeriodAsked = "weekly") =>
        IF InWeekOf(last.before.burritoAwards, now) = {}
        THEN last.replies[1].kind = "reportEmpty"
        ELSE /\ last.replies[1].kind = "report"
             /\ last.replies[1].count
                  = Cardinality(InWeekOf(last.before.burritoAwards, now))

\* C21: weekly bucketing groups only awards of one calendar week: two
\* timestamps with the same weekly period key lie in the same
\* Sunday-to-Saturday week, and a weekly report for a reference date counts
\* exactly the awards of that date's week, never those of a week of another
\* month of the same year.
WeeklyBucketIsOneWeek == WeeklyKeyNamesOneWeek /\ WeeklyReportCountsItsWeek

----------------------------------------------------------------------------
\* the message handled last is an accepted award: it reached the award
\* rules, one of them matched in full, and it is no self-award
AcceptedByMention ==
    ReachedAwardRules /\ MentionResolved /\ ~SelfByMention

AcceptedByName ==
    ReachedAwardRules /\ ~MentionResolved /\ NameExtracted /\ ~SelfByName

AcceptedByEmoji ==
    /\ ReachedAwardRules
    /\ ~MentionResolved
    /\ ~NameExtracted
    /\ ParseOf(last.activity.text).burritoEmojiCount > 0
    /\ EmojiNameIsCandidate
    /\ ~SelfByEmoji

\* the number of awards the message handled last is to record
AwardsDue ==
    IF AcceptedByMention THEN 1
    ELSE IF AcceptedByName THEN Max({1, emojiCount(last.activity.text)})
    ELSE IF AcceptedByEmoji THEN emojiCount(last.activity.text)
    ELSE 0

\* the handler that ran last left the ledger it found, followed by the
\* awards due, all from the sender to one recipient, and moved the
\* counters of these two by that number and no other counter
DueRecorded ==
    LET due == AwardsDue
    IN  /\ SubSeq(After.burritoAwards, 1, Len(last.before.burritoAwards))
             = last.before.burritoAwards
        /\ Len(Appended) = due
        /\ \A i \in 1..Len(Appended) :
              /\ Appended[i].recipientId = Appended[1].recipientId
              /\ Appended[i].giverId = last.activity.from.id
        /\ \A u \in UsersNamed(After) \cup UsersNamed(last.before) :
              /\ ReceivedOf(After, u) = ReceivedOf(last.before, u)
                    + (IF due > 0 /\ u = Appended[1].recipientId THEN due ELSE 0)
              /\ GivenOf(After, u) = GivenOf(last.before, u)
                    + (IF due > 0 /\ u = last.activity.from.id THEN due ELSE 0)

\* a step in which no handler ran its rules leaves every ledger and stats
\* mapping as it was; a step in which one did starts from the stored data
\* it is recorded to have found
StepKeepsOrHandles ==
    IF last' = last
    THEN \A c \in DOMAIN conversationDataStore :
            /\ c \in DOMAIN conversationDataStore'
            /\ conversationDataStore'[c].burritoAwards
                  = conversationDataStore[c].burritoAwards
            /\ conversationDataStore'[c].userStats = conversationDataStore[c].userStats
    ELSE conversationDataStore[last'.activity.conversation.id] = last'.before

\* since the last handler ran its rules, the stored data is what it found
\* with the awards due recorded
LastRecordsAwardsDue ==
    last.kind = "message" => DueRecorded

\* ledger and stats agree in every conversation
AllLedgersAndStatsAgree ==
    \A c \in DOMAIN conversationDataStore :
        LedgerAndStatsAgree(conversationDataStore[c])

\* C22: when the handlers of several messages for one conversation run
\* concurrently and interleave at their awaits, without mutual exclusion, no
\* award is lost or counted twice: every handler leaves exactly the awards
\* of its accepted message after the ledger it finds, no other step changes
\* ledger or stats, and every counter is the number of matching awards.
ConcurrentAwardsKept ==
    /\ []AllLedgersAndStatsAgree
    /\ []LastRecordsAwardsDue
    /\ [][StepKeepsOrHandles]_vars

\* C22 witness: two handlers wait at the send of their confirmations; one
\* recorded one award and the other two, to the same recipient, and the
\* ledger holds the three
ConcurrentAwardsKeptWitness ==
    /\ BagCardinality(running) = 2
    /\ \A handler \in BagToSet(running) :
          /\ handler.pc = "sent"
          /\ handler.more
          /\ handler.recipientId = demoRecipientId(<<"s", "a", "m">>)
    /\ \E handler \in BagToSet(running) : handler.replies[1].count = 1
    /\ \E handler \in BagToSet(running) : handler.replies[1].count = 2
    /\ Len(conversationDataStore[GroupChat.id].burritoAwards) = 3

\* the replies that confirm an accepted award
ConfirmationKinds == {"awarded", "awardedByName", "awardedByEmoji"}

\* the ledger awards of a recipient
AwardsTo(conversationData, recipientId) ==
    Cardinality({i \in 1..Len(conversationData.burritoAwards) :
                    conversationData.burritoAwards[i].recipientId = recipientId})

\* the replies of a handler that went past its first send: a confirmation
\* is sent when the handler's awards are in the stored ledger and stats, and
\* is followed by the updated total of the same recipient and by nothing
\* else; any other first reply is the only one
ConfirmationThenTotal(handler) ==
    LET conversationData == conversationDataStore[handler.activity.conversation.id]
    IN  handler.pc = "sent" =>
          IF handler.replies[1].kind \in ConfirmationKinds
          THEN /\ handler.recorded >= 1
               /\ ReceivedOf(conversationData, handler.recipientId) >= handler.recorded
               /\ AwardsTo(conversationData, handler.recipientId) >= handler.recorded
               /\ IF handler.more
                  THEN Len(handler.replies) = 1
                  ELSE /\ Len(handler.replies) = 2
                       /\ handler.replies[2].kind = "total"
                       /\ handler.replies[2].name = handler.replies[1].name
          ELSE Len(handler.replies) = 1 /\ ~handler.more

\* the total a handler stated is at least the one its own awards left
TotalNotBelowOwn(handler) ==
    Len(handler.replies) = 2 => handler.replies[2].received >= handler.recorded

RepliesOrdered ==
    \A handler \in BagToSet(running) :
        ConfirmationThenTotal(handler) /\ TotalNotBelowOwn(handler)

\* a step that sends an updated total states the recipient's totalReceived
\* of the stored data at that step, which is the number of the recipient's
\* awards in the ledger then
TotalSentIsCurrent ==
    \A handler \in BagToSet(running') :
        (/\ Len(handler.replies) = 2
         /\ CopiesIn(handler, running') > CopiesIn(handler, running))
        => LET conversationData ==
                   conversationDataStore[handler.activity.conversation.id]
           IN  /\ handler.replies[2].received
                     = ReceivedOf(conversationData, handler.recipientId)
               /\ handler.replies[2].received
                     = AwardsTo(conversationData, handler.recipientId)

\* C23 (as stated): every accepted award is answered by the confirmation and
\* then the updated total, both after ledger and stats were updated, and the
\* total stated is the recipient's totalReceived right after that message's
\* own awards were recorded, also when another handler of the conversation
\* runs between the two replies.
TotalStatesOwnAwards ==
    \A handler \in BagToSet(running) :
        /\ ConfirmationThenTotal(handler)
        /\ Len(handler.replies) = 2 => handler.replies[2].received = handler.recorded

\* C23 (amended): every accepted award is answered by the confirmation and
\* then the updated total, both after ledger and stats were updated; the
\* total stated is the recipient's totalReceived when the updated total is
\* sent, which counts the awards other handlers recorded for the recipient
\* between the two replies and is never below the total the message's own
\* awards left.
TotalStatesCurrentReceived ==
    /\ []RepliesOrdered
    /\ [][TotalSentIsCurrent]_vars

\* C23 witness: a handler sent its confirmation and then a total above the
\* one its own awards left, another handler having awarded the recipient
\* between the two replies
TotalStatesCurrentReceivedWitness ==
    \E handler \in BagToSet(running) :
        /\ Len(handler.replies) = 2
        /\ handler.replies[1].kind \in ConfirmationKinds
        /\ handler.replies[2].kind = "total"
        /\ handler.replies[2].received > handler.recorded

====
